---- MODULE Spec2Model ----
(***************************************************************************)
(* Open Wearables MCP tools: the database-session scope every tool runs    *)
(* in, the argument handling of each tool, and the aggregation performed   *)
(* by the summary tools.                                                   *)
(*                                                                         *)
(* An optional value (Python's None or a value) is a set: {} is None and   *)
(* {v} is the value v.  A string that the code takes apart (a date, a      *)
(* user id) is a sequence of tokens, so that replacing and parsing act on  *)
(* it.  A number with decimals is an integer count of its last decimal     *)
(* place (tenths for one decimal, hundredths for two).                     *)
(***************************************************************************)
EXTENDS Integers, Sequences, FiniteSets, TLC

None == {}
Some(v) == {v}
Min(a, b) == IF a <= b THEN a ELSE b

(***************************************************************************)
(* Bounds of the model.                                                    *)
(***************************************************************************)
NumCalls == 2
MaxTypes == 3
MaxWorkouts == 3

(***************************************************************************)
(* The tools.                                                              *)
(***************************************************************************)
UserTools == {"list_users", "get_user"}
ListTools == {"get_workouts", "get_sleep_sessions"}
SeriesTools == {"get_timeseries", "get_heart_rate_data", "get_steps_data"}
SummaryTools == {"get_workout_summary", "get_sleep_summary",
                 "get_heart_rate_stats", "get_activity_summary"}
Tools == UserTools \cup ListTools \cup SeriesTools \cup SummaryTools

(***************************************************************************)
(* Exceptions.  CancelledError stands for the exceptions that derive from  *)
(* BaseException but not from Exception (asyncio.CancelledError,           *)
(* KeyboardInterrupt, SystemExit).                                         *)
(***************************************************************************)
UpstreamErrors == {"SQLAlchemyError", "HTTPException", "CancelledError"}
IsException(e) == e # "CancelledError"

(***************************************************************************)
(* Date strings, as token sequences.                                       *)
(***************************************************************************)
DateTokens == {"2024-01-01"}
TimeTokens == {"T00:00:00"}
DatePlain == <<"2024-01-01">>
DateZulu == <<"2024-01-01", "T00:00:00", "Z">>
DateBad == <<"yesterday">>
DateStrings == {DatePlain, DateZulu, DateBad}
OptDateStrings == {<<>>, DateZulu, DateBad}

\* str.replace("Z", "+00:00"): every occurrence is replaced.
ReplaceZ(s) == [i \in DOMAIN s |-> IF s[i] = "Z" THEN "+00:00" ELSE s[i]]

\* datetime.fromisoformat: {} when it raises ValueError, else the datetime.
FromIsoFormat(s) ==
    IF Len(s) = 1 /\ s[1] \in DateTokens
    THEN Some([date |-> s[1], time |-> "T00:00:00", tz |-> None])
    ELSE IF Len(s) = 2 /\ s[1] \in DateTokens /\ s[2] \in TimeTokens
    THEN Some([date |-> s[1], time |-> s[2], tz |-> None])
    ELSE IF Len(s) = 2 /\ s[1] \in DateTokens /\ s[2] = "+00:00"
    THEN Some([date |-> s[1], time |-> "T00:00:00", tz |-> None])
    ELSE IF Len(s) = 3 /\ s[1] \in DateTokens /\ s[2] \in TimeTokens
            /\ s[3] = "+00:00"
    THEN Some([date |-> s[1], time |-> s[2], tz |-> Some("UTC")])
    ELSE None

\* datetime.fromisoformat(x.replace("Z", "+00:00"))
ParseDate(s) == FromIsoFormat(ReplaceZ(s))

\* if start_date: start_datetime = datetime.fromisoformat(...) (else None).
\* The result is {} when parsing raises, else the optional datetime, boxed.
ParseOptDate(s) == IF s = <<>> THEN Some(None)
                   ELSE IF ParseDate(s) = None THEN None
                   ELSE Some(ParseDate(s))

(***************************************************************************)
(* User ids.  UUID(user_id) accepts several spellings of one UUID and      *)
(* raises ValueError on anything else.                                     *)
(***************************************************************************)
UserCanonical == <<"3fa85f64-5717-4562-b3fc-2c963f66afa6">>
UserBraced == <<"{", "3fa85f64-5717-4562-b3fc-2c963f66afa6", "}">>
UserBad == <<"not-a-uuid">>
UserIds == {UserCanonical, UserBraced, UserBad}
HexTokens == {"3fa85f64-5717-4562-b3fc-2c963f66afa6"}

UUID(s) ==
    IF Len(s) = 1 /\ s[1] \in HexTokens THEN Some(s[1])
    ELSE IF Len(s) = 3 /\ s[1] = "{" /\ s[2] \in HexTokens /\ s[3] = "}"
    THEN Some(s[2])
    ELSE None

(***************************************************************************)
(* Series types.                                                           *)
(***************************************************************************)
SeriesTypeValues == {"heart_rate", "resting_heart_rate", "steps", "energy",
                     "exercise_time"}
TypeNames == {"heart_rate", "steps", "bogus"}

\* A resolution that drops a name it has already kept.
RECURSIVE ResolveDistinct(_)
ResolveDistinct(series_types) ==
    IF series_types = <<>> THEN <<>>
    ELSE LET front == ResolveDistinct(SubSeq(series_types, 1,
                                             Len(series_types) - 1))
             last == series_types[Len(series_types)]
         IN  IF last \in SeriesTypeValues
                /\ \A i \in DOMAIN front : front[i] # last
             THEN Append(front, last)
             ELSE front

\* for st in series_types: with suppress(ValueError): types.append(SeriesType(st))
ResolveSeriesTypes(series_types) ==
    SelectSeq(series_types, LAMBDA st : st \in SeriesTypeValues)

(***************************************************************************)
(* Arithmetic helpers.                                                     *)
(***************************************************************************)
TheValue(opt) == CHOOSE v \in opt : TRUE
OrZero(opt) == IF opt = None THEN 0 ELSE TheValue(opt)
\* Python truthiness of an optional number and of an optional string.
Truthy(opt) == opt # None /\ opt # Some(0)
TruthyStr(opt) == opt # None /\ opt # Some("")

RECURSIVE SumSeq(_)
SumSeq(s) == IF s = <<>> THEN 0 ELSE s[1] + SumSeq(Tail(s))

\* A rounding that drops the digits past the last decimal place.
RoundTruncating(num, den, scale) == {(num * scale) \div den}

\* round(num / den, d) with scale = 10^d, as a count of the last decimal
\* place.  The float quotient of an exact tie falls on either side of it
\* (round(9 / 60, 1) is 0.1 and round(3 / 60, 1) is 0.1, round(15 / 60, 1)
\* is 0.2 and round(45 / 60, 1) is 0.8), so a tie yields both neighbours.
Round(num, den, scale) ==
    LET q == (num * scale) \div den
        r == (num * scale) - q * den
    IN  IF 2 * r < den THEN {q}
        ELSE IF 2 * r > den THEN {q + 1}
        ELSE {q, q + 1}

\* A period echo that gives the dates as they were handed to the parser.
PeriodReformatted(start_date, end_date) ==
    [start |-> ReplaceZ(start_date), end |-> ReplaceZ(end_date)]

\* "period": {"start": start_date, "end": end_date}
Period(start_date, end_date) == [start |-> start_date, end |-> end_date]

(***************************************************************************)
(* get_workout_summary: the aggregation over the fetched workouts.         *)
(***************************************************************************)
\* wtype = w.type or "unknown"
WorkoutType(w) == IF TruthyStr(w.type) THEN TheValue(w.type) ELSE "unknown"

\* w.duration_seconds or 0
WorkoutDuration(w) == OrZero(w.duration_seconds)

\* total_duration = sum(w.duration_seconds or 0 for w in workouts)
TotalDuration(workouts) ==
    SumSeq([i \in DOMAIN workouts |-> WorkoutDuration(workouts[i])])

\* if w.avg_heart_rate_bpm: hr_values.append(w.avg_heart_rate_bpm)
ReportsHeartRate(w) == Truthy(w.avg_heart_rate_bpm)

HrValues(workouts) ==
    LET with == SelectSeq(workouts, ReportsHeartRate)
    IN  [i \in DOMAIN with |-> TheValue(with[i].avg_heart_rate_bpm)]

\* A loop that stores a workout's duration over its type's total.
RECURSIVE TypeItemsOverwriting(_, _)
TypeItemsOverwriting(workouts, items) ==
    IF workouts = <<>> THEN items
    ELSE LET w == Head(workouts)
             t == WorkoutType(w)
             known == \E i \in DOMAIN items : items[i].wtype = t
             next == IF known
                     THEN [i \in DOMAIN items |->
                             IF items[i].wtype = t
                             THEN [wtype |-> t,
                                   count |-> items[i].count + 1,
                                   duration |-> WorkoutDuration(w)]
                             ELSE items[i]]
                     ELSE Append(items, [wtype |-> t, count |-> 1,
                                         duration |-> WorkoutDuration(w)])
         IN  TypeItemsOverwriting(Tail(workouts), next)

\* The dicts type_counts and type_durations after the loop, as the sequence
\* of their items in insertion order (the order in which a type was first
\* met).
RECURSIVE TypeItems(_, _)
TypeItems(workouts, items) ==
    IF workouts = <<>> THEN items
    ELSE LET w == Head(workouts)
             t == WorkoutType(w)
             known == \E i \in DOMAIN items : items[i].wtype = t
             next == IF known
                     THEN [i \in DOMAIN items |->
                             IF items[i].wtype = t
                             THEN [wtype |-> t,
                                   count |-> items[i].count + 1,
                                   duration |-> items[i].duration
                                                + WorkoutDuration(w)]
                             ELSE items[i]]
                     ELSE Append(items, [wtype |-> t, count |-> 1,
                                         duration |-> WorkoutDuration(w)])
         IN  TypeItems(Tail(workouts), next)

\* A sort step that is not stable: e goes ahead of the items with its count.
InsertByCountUnstable(sorted, e) ==
    LET ahead == SelectSeq(sorted, LAMBDA x : x.count > e.count)
        behind == SelectSeq(sorted, LAMBDA x : x.count <= e.count)
    IN  ahead \o <<e>> \o behind

\* One step of the stable descending sort: e goes behind every item whose
\* count is at least its own.
InsertByCount(sorted, e) ==
    LET ahead == SelectSeq(sorted, LAMBDA x : x.count >= e.count)
        behind == SelectSeq(sorted, LAMBDA x : x.count < e.count)
    IN  ahead \o <<e>> \o behind

\* sorted(type_counts.items(), key=lambda x: x[1], reverse=True)
RECURSIVE SortedByCount(_, _)
SortedByCount(items, sorted) ==
    IF items = <<>> THEN sorted
    ELSE SortedByCount(Tail(items), InsertByCount(sorted, Head(items)))

\* The "workout_types" mapping, in its iteration order: every way the
\* per-type minutes can round.
RECURSIVE TypeBreakdowns(_)
TypeBreakdowns(sorted) ==
    IF sorted = <<>> THEN {<<>>}
    ELSE {<<[wtype |-> Head(sorted).wtype, count |-> Head(sorted).count,
             total_duration_minutes |-> m]>> \o rest :
            m \in Round(Head(sorted).duration, 60, 10),
            rest \in TypeBreakdowns(Tail(sorted))}

\* The "heart_rate" block.
HeartRateBlocks(hr_values) ==
    IF hr_values = <<>> THEN {None}
    ELSE {Some([avg_across_workouts |-> a,
                workouts_with_hr_data |-> Len(hr_values)]) :
            a \in Round(SumSeq(hr_values), Len(hr_values), 10)}

\* The results get_workout_summary can return for the fetched workouts.
WorkoutSummary(workouts, start_date, end_date) ==
    IF workouts = <<>>
    THEN {[total_workouts |-> 0,
           total_duration_seconds |-> 0,
           total_duration_hours |-> 0,
           workout_types |-> <<>>,
           avg_duration_minutes |-> 0,
           period |-> Period(start_date, end_date)]}
    ELSE LET total_duration == TotalDuration(workouts)
             sorted == SortedByCount(TypeItems(workouts, <<>>), <<>>)
         IN  {[total_workouts |-> Len(workouts),
               total_duration_seconds |-> total_duration,
               total_duration_hours |-> h,
               avg_duration_minutes |-> a,
               workout_types |-> wt,
               heart_rate |-> hr,
               period |-> Period(start_date, end_date)] :
                h \in Round(total_duration, 3600, 100),
                a \in Round(total_duration, Len(workouts) * 60, 10),
                wt \in TypeBreakdowns(sorted),
                hr \in HeartRateBlocks(HrValues(workouts))}

(***************************************************************************)
(* get_sleep_summary: the aggregation over the fetched sessions.           *)
(***************************************************************************)
\* A partition that takes every session for a main sleep.
IsMainSleepAlways(s) == TRUE

\* main_sleeps = [s for s in sessions if not s.is_nap]
IsMainSleep(s) == ~s.is_nap
MainSleeps(sessions) == SelectSeq(sessions, IsMainSleep)
Naps(sessions) == SelectSeq(sessions, LAMBDA s : s.is_nap)

\* efficiencies = [s.efficiency_percent for s in main_sleeps
\*                 if s.efficiency_percent is not None]
Efficiencies(main_sleeps) ==
    LET with == SelectSeq(main_sleeps, LAMBDA s : s.efficiency_percent # None)
    IN  [i \in DOMAIN with |-> TheValue(with[i].efficiency_percent)]

\* if s.stages: (a stages object is always truthy)
HasStages(s) == s.stages # None
WithStages(main_sleeps) == SelectSeq(main_sleeps, HasStages)

\* stage_totals[k] += s.stages.<k>_seconds or 0
StageTotals(main_sleeps) ==
    LET with == WithStages(main_sleeps)
        st(i) == TheValue(with[i].stages)
    IN  [deep |-> SumSeq([i \in DOMAIN with |-> OrZero(st(i).deep_seconds)]),
         light |-> SumSeq([i \in DOMAIN with |-> OrZero(st(i).light_seconds)]),
         rem |-> SumSeq([i \in DOMAIN with |-> OrZero(st(i).rem_seconds)]),
         awake |-> SumSeq([i \in DOMAIN with |-> OrZero(st(i).awake_seconds)])]

\* A divisor that counts every main sleep, with stages or without.
StagesDivisorOverAll(main_sleeps) == Len(main_sleeps)

\* sessions_with_stages
StagesDivisor(main_sleeps) == Len(WithStages(main_sleeps))

\* A denominator of the percentages that includes the time awake.
AsleepTotalWithAwake(t) == t.deep + t.light + t.rem + t.awake

\* stage_totals["deep"] + stage_totals["light"] + stage_totals["rem"]
AsleepTotal(t) == t.deep + t.light + t.rem

\* round(x / den, d) if den else None
RoundOrNone(num, den, scale) ==
    IF den > 0 THEN {Some(v) : v \in Round(num, den, scale)} ELSE {None}

\* The "sleep_stages_avg" block.
SleepStagesAvg(main_sleeps) ==
    LET n == StagesDivisor(main_sleeps)
        t == StageTotals(main_sleeps)
        asleep == AsleepTotal(t)
    IN  IF n = 0 THEN {None}
        ELSE {Some([deep_minutes |-> dm, light_minutes |-> lm,
                    rem_minutes |-> rm, awake_minutes |-> am,
                    deep_percent |-> dp, rem_percent |-> rp]) :
                dm \in RoundOrNone(t.deep, n * 60, 10),
                lm \in RoundOrNone(t.light, n * 60, 10),
                rm \in RoundOrNone(t.rem, n * 60, 10),
                am \in RoundOrNone(t.awake, n * 60, 10),
                dp \in RoundOrNone(t.deep * 100, asleep, 10),
                rp \in RoundOrNone(t.rem * 100, asleep, 10)}

\* The summaries built from the averages and the stage totals.
SleepSummaryOver(sessions, start_date, end_date) ==
    LET main_sleeps == MainSleeps(sessions)
        total_duration ==
            SumSeq([i \in DOMAIN main_sleeps |->
                      OrZero(main_sleeps[i].duration_seconds)])
        efficiencies == Efficiencies(main_sleeps)
        n == Len(main_sleeps)
    IN  {[total_sessions |-> Len(sessions),
          main_sleep_sessions |-> n,
          naps |-> Len(Naps(sessions)),
          avg_duration_hours |-> ah,
          avg_duration_minutes |-> am,
          total_sleep_hours |-> th,
          avg_efficiency_percent |-> ef,
          sleep_stages_avg |-> sa,
          period |-> Period(start_date, end_date)] :
           ah \in IF n > 0 THEN Round(total_duration, n * 3600, 100)
                  ELSE {0},
           am \in IF n > 0 THEN Round(total_duration, n * 60, 10)
                  ELSE {0},
           th \in Round(total_duration, 3600, 100),
           ef \in RoundOrNone(SumSeq(efficiencies), Len(efficiencies), 10),
           sa \in SleepStagesAvg(main_sleeps)}

\* A tool without the zero-count shape for an empty list.
SleepSummaryWithoutEmptyShape(sessions, start_date, end_date) ==
    SleepSummaryOver(sessions, start_date, end_date)

\* The results get_sleep_summary can return for the fetched sessions.
SleepSummary(sessions, start_date, end_date) ==
    IF sessions = <<>>
    THEN {[total_sessions |-> 0,
           main_sleep_sessions |-> 0,
           naps |-> 0,
           period |-> Period(start_date, end_date)]}
    ELSE SleepSummaryOver(sessions, start_date, end_date)

(***************************************************************************)
(* Time-series samples.  A sample's value is a count of hundredths of its  *)
(* unit; its timestamp is optional and carries the calendar date.          *)
(***************************************************************************)
RECURSIVE MinSeq(_)
MinSeq(s) == IF Len(s) = 1 THEN s[1] ELSE Min(s[1], MinSeq(Tail(s)))
RECURSIVE MaxSeq(_)
MaxSeq(s) == IF Len(s) = 1 THEN s[1]
             ELSE IF s[1] >= MaxSeq(Tail(s)) THEN s[1] ELSE MaxSeq(Tail(s))

\* The values of the samples of one series type, in fetched order.
ValuesOfType(data, type) ==
    LET of == SelectSeq(data, LAMBDA x : x.type = type)
    IN  [i \in DOMAIN of |-> of[i].value]

(***************************************************************************)
(* get_heart_rate_stats.                                                   *)
(***************************************************************************)
\* sum(values) / len(values) adds the floats one by one, in the order of
\* the list.  For 58.5, 78.95 and 130.6, whose mean is 89.35, the sum is
\* 268.04999999999995 and the quotient 89.34999999999998 when 58.5 and 78.95
\* are added first, and the sum is 268.05 and the quotient 89.35000000000001
\* in the four other orders (CPython 3.11, binary64).
QuotientBelowMean == {<<5850, 7895, 13060>>, <<7895, 5850, 13060>>}
QuotientAboveMean ==
    {<<5850, 13060, 7895>>, <<7895, 13060, 5850>>,
     <<13060, 5850, 7895>>, <<13060, 7895, 5850>>}

\* One block: min, max and mean rounded to one decimal, and the count.
\* round() of one float is one number: equal min and max round alike, and
\* the mean of a single value is that value.  The mean of several values is
\* a computed quotient, which Round lets fall on either side of a tie,
\* except where the side it falls on is known.
HeartRateStatsBlock(values) ==
    IF values = <<>> THEN {None}
    ELSE {Some(b) :
            b \in {r \in [min_bpm : Round(MinSeq(values), 10, 1),
                          max_bpm : Round(MaxSeq(values), 10, 1),
                          avg_bpm : Round(SumSeq(values), Len(values) * 10, 1),
                          data_points : {Len(values)}] :
                     /\ MinSeq(values) = MaxSeq(values)
                           => r.min_bpm = r.max_bpm
                     /\ Len(values) = 1 => r.avg_bpm = r.min_bpm
                     /\ values \in QuotientBelowMean =>
                           \A x \in Round(SumSeq(values), Len(values) * 10, 1) :
                               r.avg_bpm <= x
                     /\ values \in QuotientAboveMean =>
                           \A x \in Round(SumSeq(values), Len(values) * 10, 1) :
                               r.avg_bpm >= x}}

\* A tool without the flat shape for a batch without heart-rate samples.
HeartRateStatsAlwaysBlocks(data, start_date, end_date) ==
    LET hr_values == ValuesOfType(data, "heart_rate")
        resting_hr_values == ValuesOfType(data, "resting_heart_rate")
    IN  {[heart_rate |-> h,
          resting_heart_rate |-> r,
          total_data_points |-> Len(hr_values) + Len(resting_hr_values),
          period |-> Period(start_date, end_date)] :
            h \in HeartRateStatsBlock(hr_values),
            r \in HeartRateStatsBlock(resting_hr_values)}

HeartRateStats(data, start_date, end_date) ==
    LET hr_values == ValuesOfType(data, "heart_rate")
        resting_hr_values == ValuesOfType(data, "resting_heart_rate")
    IN  IF hr_values = <<>> /\ resting_hr_values = <<>>
        THEN {[heart_rate |-> None,
               resting_heart_rate |-> None,
               data_points |-> 0,
               period |-> Period(start_date, end_date)]}
        ELSE {[heart_rate |-> h,
               resting_heart_rate |-> r,
               total_data_points |-> Len(hr_values) + Len(resting_hr_values),
               period |-> Period(start_date, end_date)] :
                h \in HeartRateStatsBlock(hr_values),
                r \in HeartRateStatsBlock(resting_hr_values)}

(***************************************************************************)
(* get_activity_summary.                                                   *)
(***************************************************************************)
\* A divisor that counts the dates of the samples of every series type.
DistinctDaysOfAnyType(data, type) ==
    LET days == {TheValue(data[i].timestamp).date :
                   i \in {j \in DOMAIN data : data[j].timestamp # None}}
    IN  IF Cardinality(days) >= 1 THEN Cardinality(days) ELSE 1

\* max(1, len(set(s.timestamp.date() for s in result.data
\*                if s.type == <type> and s.timestamp)))
DistinctDays(data, type) ==
    LET days == {TheValue(data[i].timestamp).date :
                   i \in {j \in DOMAIN data :
                            data[j].type = type /\ data[j].timestamp # None}}
    IN  IF Cardinality(days) >= 1 THEN Cardinality(days) ELSE 1

StepsBlock(data) ==
    LET steps_values == ValuesOfType(data, "steps")
    IN  IF steps_values = <<>> THEN None
        ELSE Some([total |-> SumSeq(steps_values) \div 100,
                   avg_per_day |-> SumSeq(steps_values)
                                   \div (100 * DistinctDays(data, "steps")),
                   data_points |-> Len(steps_values)])

EnergyBlocks(data) ==
    LET energy_values == ValuesOfType(data, "energy")
    IN  IF energy_values = <<>> THEN {None}
        ELSE {Some([total_kcal |-> t, avg_kcal_per_day |-> a,
                    data_points |-> Len(energy_values)]) :
                t \in Round(SumSeq(energy_values), 10, 1),
                a \in Round(SumSeq(energy_values),
                            10 * DistinctDays(data, "energy"), 1)}

\* A block that is null only when the batch holds no sample at all.
ExerciseBlocksOfBatch(data) ==
    LET exercise_values == ValuesOfType(data, "exercise_time")
    IN  IF data = <<>> THEN {None}
        ELSE {Some([total_minutes |-> t,
                    data_points |-> Len(exercise_values)]) :
                t \in Round(SumSeq(exercise_values), 10, 1)}

ExerciseBlocks(data) ==
    LET exercise_values == ValuesOfType(data, "exercise_time")
    IN  IF exercise_values = <<>> THEN {None}
        ELSE {Some([total_minutes |-> t,
                    data_points |-> Len(exercise_values)]) :
                t \in Round(SumSeq(exercise_values), 10, 1)}

ActivitySummary(data, start_date, end_date) ==
    {[steps |-> StepsBlock(data),
      energy |-> e,
      exercise_time |-> x,
      period |-> Period(start_date, end_date)] :
        e \in EnergyBlocks(data), x \in ExerciseBlocks(data)}

(***************************************************************************)
(* The listing tools: how a fetched page is reshaped.                      *)
(***************************************************************************)
\* round(x / den, d) if x else None
RoundIfTruthy(opt, den, scale) ==
    IF Truthy(opt) THEN {Some(v) : v \in Round(TheValue(opt), den, scale)}
    ELSE {None}

\* result.metadata.sample_count if result.metadata else len(result.data), ...
MetadataOf(resp) ==
    IF resp.metadata # None
    THEN [sample_count |-> TheValue(resp.metadata).sample_count,
          start_time |-> TheValue(resp.metadata).start_time,
          end_time |-> TheValue(resp.metadata).end_time]
    ELSE [sample_count |-> Len(resp.data), start_time |-> None,
          end_time |-> None]

RECURSIVE WorkoutRows(_)
WorkoutRows(data) ==
    IF data = <<>> THEN {<<>>}
    ELSE {<<[type |-> Head(data).type,
             duration_seconds |-> Head(data).duration_seconds,
             duration_minutes |-> m,
             avg_heart_rate_bpm |-> Head(data).avg_heart_rate_bpm]>> \o rest :
            m \in RoundIfTruthy(Head(data).duration_seconds, 60, 10),
            rest \in WorkoutRows(Tail(data))}

WorkoutsResult(resp) ==
    {[workouts |-> rows, pagination |-> resp.pagination,
      metadata |-> MetadataOf(resp)] : rows \in WorkoutRows(resp.data)}

\* The "stages" dict of one session.
StagesRows(stages) ==
    IF stages = None THEN {None}
    ELSE LET st == TheValue(stages)
         IN  {Some([deep_seconds |-> st.deep_seconds, deep_minutes |-> dm,
                    light_seconds |-> st.light_seconds, light_minutes |-> lm,
                    rem_seconds |-> st.rem_seconds, rem_minutes |-> rm,
                    awake_seconds |-> st.awake_seconds, awake_minutes |-> am]) :
                dm \in RoundIfTruthy(st.deep_seconds, 60, 10),
                lm \in RoundIfTruthy(st.light_seconds, 60, 10),
                rm \in RoundIfTruthy(st.rem_seconds, 60, 10),
                am \in RoundIfTruthy(st.awake_seconds, 60, 10)}

RECURSIVE SleepRows(_)
SleepRows(data) ==
    IF data = <<>> THEN {<<>>}
    ELSE {<<[duration_seconds |-> Head(data).duration_seconds,
             duration_hours |-> h,
             efficiency_percent |-> Head(data).efficiency_percent,
             is_nap |-> Head(data).is_nap,
             stages |-> st]>> \o rest :
            h \in RoundIfTruthy(Head(data).duration_seconds, 3600, 100),
            st \in StagesRows(Head(data).stages),
            rest \in SleepRows(Tail(data))}

SleepSessionsResult(resp) ==
    {[sleep_sessions |-> rows, pagination |-> resp.pagination,
      metadata |-> MetadataOf(resp)] : rows \in SleepRows(resp.data)}

\* sample.timestamp.isoformat() if sample.timestamp else None
TimestampOut(sample) == sample.timestamp

TimeseriesResult(resp, series_types) ==
    [data |-> [i \in DOMAIN resp.data |->
                 [timestamp |-> TimestampOut(resp.data[i]),
                  type |-> resp.data[i].type,
                  value |-> resp.data[i].value,
                  unit |-> resp.data[i].unit]],
     pagination |-> resp.pagination,
     metadata |-> [sample_count |-> MetadataOf(resp).sample_count,
                   start_time |-> MetadataOf(resp).start_time,
                   end_time |-> MetadataOf(resp).end_time,
                   requested_types |-> series_types]]

HeartRateDataResult(resp) ==
    [heart_rate_data |-> [i \in DOMAIN resp.data |->
                            [timestamp |-> TimestampOut(resp.data[i]),
                             type |-> resp.data[i].type,
                             value_bpm |-> resp.data[i].value]],
     sample_count |-> Len(resp.data),
     has_more |-> resp.pagination.has_more]

\* "steps": int(sample.value) if sample.value else 0
StepsDataResult(resp) ==
    [steps_data |-> [i \in DOMAIN resp.data |->
                       [timestamp |-> TimestampOut(resp.data[i]),
                        steps |-> resp.data[i].value \div 100]],
     sample_count |-> Len(resp.data),
     has_more |-> resp.pagination.has_more]

\* (total + limit - 1) // limit if limit > 0 else 0
Pages(total, limit) == IF limit > 0 THEN (total + limit - 1) \div limit ELSE 0

ListUsersResult(page) ==
    [users |-> [i \in DOMAIN page.items |-> [id |-> page.items[i].id]],
     pagination |-> [total |-> page.total, page |-> page.page,
                     limit |-> page.limit,
                     pages |-> Pages(page.total, page.limit)]]

GetUserResult(user) == [id |-> user.id]

(***************************************************************************)
(* The calls the tools make to the service layer.  a is the tool's         *)
(* arguments, p the parsed start and end datetimes, db the session handle. *)
(***************************************************************************)
UsersLimitCap == 100
WorkoutsLimitCap == 100
SleepLimitCap == 100
TimeseriesLimitCap == 1000
HeartRateDataLimitCap == 1000
StepsDataLimitCap == 1000
WorkoutSummaryLimit == 500
SleepSummaryLimit == 100
HeartRateStatsLimit == 10000
ActivitySummaryLimit == 10000

QueryParams(p, limit) ==
    [start_datetime |-> p.start_datetime, end_datetime |-> p.end_datetime,
     limit |-> limit]

list_users_call(a, db) ==
    [service |-> "user_service.get_users_paginated", db |-> db,
     user_id |-> None, types |-> <<>>,
     params |-> [page |-> a.page, limit |-> Min(a.limit, UsersLimitCap),
                 search |-> a.search]]

get_user_call(a, db) ==
    [service |-> "user_service.get", db |-> db,
     user_id |-> UUID(a.user_id), types |-> <<>>,
     params |-> [raise_404 |-> TRUE]]

\* get_workouts passing the requested limit on as it is.
get_workouts_call_unclamped(a, p, db) ==
    [service |-> "event_record_service.get_workouts", db |-> db,
     user_id |-> UUID(a.user_id), types |-> <<>>,
     params |-> [start_datetime |-> p.start_datetime,
                 end_datetime |-> p.end_datetime,
                 type |-> a.workout_type,
                 limit |-> a.limit]]

get_workouts_call(a, p, db) ==
    [service |-> "event_record_service.get_workouts", db |-> db,
     user_id |-> UUID(a.user_id), types |-> <<>>,
     params |-> [start_datetime |-> p.start_datetime,
                 end_datetime |-> p.end_datetime,
                 type |-> a.workout_type,
                 limit |-> Min(a.limit, WorkoutsLimitCap)]]

get_sleep_sessions_call(a, p, db) ==
    [service |-> "event_record_service.get_sleep_sessions", db |-> db,
     user_id |-> UUID(a.user_id), types |-> <<>>,
     params |-> QueryParams(p, Min(a.limit, SleepLimitCap))]

get_timeseries_call(a, p, types, db) ==
    [service |-> "timeseries_service.get_timeseries", db |-> db,
     user_id |-> UUID(a.user_id), types |-> types,
     params |-> QueryParams(p, Min(a.limit, TimeseriesLimitCap))]

get_heart_rate_data_call(a, p, db) ==
    [service |-> "timeseries_service.get_timeseries", db |-> db,
     user_id |-> UUID(a.user_id),
     types |-> IF a.include_resting
               THEN <<"heart_rate", "resting_heart_rate">>
               ELSE <<"heart_rate">>,
     params |-> QueryParams(p, Min(a.limit, HeartRateDataLimitCap))]

get_steps_data_call(a, p, db) ==
    [service |-> "timeseries_service.get_timeseries", db |-> db,
     user_id |-> UUID(a.user_id), types |-> <<"steps">>,
     params |-> QueryParams(p, Min(a.limit, StepsDataLimitCap))]

\* get_workout_summary querying on one session kept for the module, not
\* on the one its with block was given.
get_workout_summary_call_on_kept_session(a, p, db) ==
    [service |-> "event_record_service.get_workouts", db |-> 1,
     user_id |-> UUID(a.user_id), types |-> <<>>,
     params |-> QueryParams(p, WorkoutSummaryLimit)]

get_workout_summary_call(a, p, db) ==
    [service |-> "event_record_service.get_workouts", db |-> db,
     user_id |-> UUID(a.user_id), types |-> <<>>,
     params |-> QueryParams(p, WorkoutSummaryLimit)]

get_sleep_summary_call(a, p, db) ==
    [service |-> "event_record_service.get_sleep_sessions", db |-> db,
     user_id |-> UUID(a.user_id), types |-> <<>>,
     params |-> QueryParams(p, SleepSummaryLimit)]

\* get_heart_rate_stats asking for one series type only.
get_heart_rate_stats_call_single(a, p, db) ==
    [service |-> "timeseries_service.get_timeseries", db |-> db,
     user_id |-> UUID(a.user_id),
     types |-> <<"heart_rate">>,
     params |-> QueryParams(p, HeartRateStatsLimit)]

get_heart_rate_stats_call(a, p, db) ==
    [service |-> "timeseries_service.get_timeseries", db |-> db,
     user_id |-> UUID(a.user_id),
     types |-> <<"heart_rate", "resting_heart_rate">>,
     params |-> QueryParams(p, HeartRateStatsLimit)]

get_activity_summary_call(a, p, db) ==
    [service |-> "timeseries_service.get_timeseries", db |-> db,
     user_id |-> UUID(a.user_id),
     types |-> <<"steps", "energy", "exercise_time">>,
     params |-> QueryParams(p, ActivitySummaryLimit)]

\* The call of the registered tool t.
ServiceCall(t, a, p, types, db) ==
    CASE t = "list_users" -> list_users_call(a, db)
      [] t = "get_user" -> get_user_call(a, db)
      [] t = "get_workouts" -> get_workouts_call(a, p, db)
      [] t = "get_sleep_sessions" -> get_sleep_sessions_call(a, p, db)
      [] t = "get_timeseries" -> get_timeseries_call(a, p, types, db)
      [] t = "get_heart_rate_data" -> get_heart_rate_data_call(a, p, db)
      [] t = "get_steps_data" -> get_steps_data_call(a, p, db)
      [] t = "get_workout_summary" -> get_workout_summary_call(a, p, db)
      [] t = "get_sleep_summary" -> get_sleep_summary_call(a, p, db)
      [] t = "get_heart_rate_stats" -> get_heart_rate_stats_call(a, p, db)
      [] t = "get_activity_summary" -> get_activity_summary_call(a, p, db)

\* What the registered tool t returns for the service's response.
ToolResults(t, a, resp) ==
    CASE t = "list_users" -> {ListUsersResult(resp)}
      [] t = "get_user" -> {GetUserResult(resp)}
      [] t = "get_workouts" -> WorkoutsResult(resp)
      [] t = "get_sleep_sessions" -> SleepSessionsResult(resp)
      [] t = "get_timeseries" -> {TimeseriesResult(resp, a.series_types)}
      [] t = "get_heart_rate_data" -> {HeartRateDataResult(resp)}
      [] t = "get_steps_data" -> {StepsDataResult(resp)}
      [] t = "get_workout_summary" ->
            WorkoutSummary(resp.data, a.start_date, a.end_date)
      [] t = "get_sleep_summary" ->
            SleepSummary(resp.data, a.start_date, a.end_date)
      [] t = "get_heart_rate_stats" ->
            HeartRateStats(resp.data, a.start_date, a.end_date)
      [] t = "get_activity_summary" ->
            ActivitySummary(resp.data, a.start_date, a.end_date)

\* The "no valid series types" notice of get_timeseries.
NoValidTypesNotice ==
    [error |-> "No valid series types provided. Valid types include: heart_rate, steps, resting_heart_rate, etc.",
     data |-> <<>>]

(***************************************************************************)
(* The inputs of the model: the arguments a caller passes and the          *)
(* responses of the service layer.                                         *)
(***************************************************************************)
Calls == 1 .. NumCalls
SeqsUpTo(S, n) == UNION {[1 .. k -> S] : k \in 0 .. n}
Limits == {-1, 0, 20, 100, 101, 1000, 1001}

ToolArgs(t) ==
    CASE t = "list_users" -> [limit : Limits, page : {1, 2}, search : {None}]
      [] t = "get_user" -> [user_id : UserIds]
      [] t = "get_workouts" ->
            [user_id : UserIds, start_date : OptDateStrings,
             end_date : OptDateStrings, workout_type : {None},
             limit : Limits]
      [] t = "get_sleep_sessions" ->
            [user_id : UserIds, start_date : OptDateStrings,
             end_date : OptDateStrings, limit : Limits]
      [] t = "get_timeseries" ->
            [user_id : UserIds, series_types : SeqsUpTo(TypeNames, MaxTypes),
             start_datetime : DateStrings, end_datetime : DateStrings,
             limit : Limits]
      [] t = "get_heart_rate_data" ->
            [user_id : UserIds, start_datetime : DateStrings,
             end_datetime : DateStrings, include_resting : BOOLEAN,
             limit : Limits]
      [] t = "get_steps_data" ->
            [user_id : UserIds, start_datetime : DateStrings,
             end_datetime : DateStrings, limit : Limits]
      [] t \in SummaryTools ->
            [user_id : UserIds, start_date : DateStrings,
             end_date : DateStrings]

StartArg(t, a) == IF t \in SeriesTools THEN a.start_datetime ELSE a.start_date
EndArg(t, a) == IF t \in SeriesTools THEN a.end_datetime ELSE a.end_date

Page(data) ==
    [data |-> data,
     pagination |-> [has_more |-> FALSE, total_count |-> Len(data)],
     metadata |-> None]

SomeWorkout ==
    [type |-> Some("running"), duration_seconds |-> Some(1800),
     avg_heart_rate_bpm |-> Some(140)]
SomeSleep ==
    [duration_seconds |-> Some(28800), efficiency_percent |-> Some(90),
     is_nap |-> FALSE,
     stages |-> Some([deep_seconds |-> Some(3600),
                      light_seconds |-> Some(14400),
                      rem_seconds |-> Some(7200),
                      awake_seconds |-> None])]
SomeHeartRate ==
    [type |-> "heart_rate", value |-> 6150, unit |-> "bpm",
     timestamp |-> Some([date |-> "2024-01-01"])]
SomeSteps ==
    [type |-> "steps", value |-> 120000, unit |-> "count",
     timestamp |-> Some([date |-> "2024-01-01"])]

SomeUser == [id |-> "3fa85f64-5717-4562-b3fc-2c963f66afa6"]

\* What the record source holds for the queries of a run.
EmptySource ==
    [users |-> <<>>, workouts |-> <<>>, sleeps |-> <<>>, samples |-> <<>>]
FullSource ==
    [users |-> <<SomeUser>>, workouts |-> <<SomeWorkout>>,
     sleeps |-> <<SomeSleep>>, samples |-> <<SomeHeartRate, SomeSteps>>]
Sources == {EmptySource, FullSource}

\* The response of the service to a call, given what the source holds.
Response(call, src) ==
    CASE call.service = "user_service.get_users_paginated" ->
            [items |-> src.users, total |-> Len(src.users),
             page |-> call.params.page, limit |-> call.params.limit]
      [] call.service = "user_service.get" ->
            [id |-> TheValue(call.user_id)]
      [] call.service = "event_record_service.get_workouts" ->
            Page(src.workouts)
      [] call.service = "event_record_service.get_sleep_sessions" ->
            Page(src.sleeps)
      [] call.service = "timeseries_service.get_timeseries" ->
            Page(src.samples)

(***************************************************************************)
(* State.                                                                  *)
(***************************************************************************)
VARIABLES
    source,      \* what the record source holds
    live,        \* the invocations the host makes
    pc,          \* pc[c]: where invocation c stands
    tool,        \* tool[c]: the tool invoked
    args,        \* args[c]: its arguments
    parsed,      \* parsed[c]: start_datetime and end_datetime, once parsed
    types,       \* types[c]: the resolved series types of get_timeseries
    db,          \* db[c]: the session yielded to c (0: none)
    exc,         \* exc[c]: the exception in flight in c, if any
    result,      \* result[c]: the value c's body returned, if any
    outcome,     \* outcome[c]: what reached the caller
    sessLog,     \* sessLog[s]: the calls made on session s, in order
    fetchLog,    \* fetchLog[c]: the service calls c made, in order
    nextSession  \* the next session SessionLocal() creates

vars == <<source, live, pc, tool, args, parsed, types, db, exc, result, outcome,
          sessLog, fetchLog, nextSession>>

NoDates == [start_datetime |-> None, end_datetime |-> None]

InitCalls ==
    /\ pc = [c \in Calls |-> "idle"]
    /\ tool = [c \in Calls |-> "none"]
    /\ args = [c \in Calls |-> <<>>]
    /\ parsed = [c \in Calls |-> NoDates]
    /\ types = [c \in Calls |-> <<>>]
    /\ db = [c \in Calls |-> 0]
    /\ exc = [c \in Calls |-> None]
    /\ result = [c \in Calls |-> None]
    /\ outcome = [c \in Calls |-> [kind |-> "none"]]
    /\ sessLog = [s \in Calls |-> <<>>]
    /\ fetchLog = [c \in Calls |-> <<>>]
    /\ nextSession = 1

Init == source \in Sources /\ live = {1} /\ InitCalls

(***************************************************************************)
(* get_db_session.                                                         *)
(***************************************************************************)
\* A handler that never rolls back.
HandlerPcWithoutRollback(e) == "finally"

\* try: yield db / except Exception as exc: ... / finally: ...
\* Where an exception raised by the body goes: to the except clause when it
\* is an Exception, straight to the finally clause otherwise.
HandlerPc(e) == IF IsException(e) THEN "except" ELSE "finally"

\* A handler that raises a new exception in place of the one it caught.
ReRaisedAsNew(e) == "RuntimeError"

\* raise exc
ReRaised(e) == e

Event(op, c) == [op |-> op, by |-> c]

\* SessionLocal() inside get_db_session: the n-th entry makes the n-th
\* session, a new one each time.
SessionLocal(n) == n

\* db = SessionLocal(); the session is yielded to the tool's with block.
OpenSession(c) ==
    /\ pc[c] = "open"
    /\ db' = [db EXCEPT ![c] = SessionLocal(nextSession)]
    /\ sessLog' = [sessLog EXCEPT ![SessionLocal(nextSession)] =
                     Append(@, Event("open", c))]
    /\ nextSession' = nextSession + 1
    /\ pc' = [pc EXCEPT ![c] = "body"]
    /\ UNCHANGED <<source, live, tool, args, parsed, types, exc, result, outcome,
                   fetchLog>>

\* except Exception as exc: db.rollback(); raise exc
Rollback(c) ==
    /\ pc[c] = "except"
    /\ sessLog' = [sessLog EXCEPT ![db[c]] = Append(@, Event("rollback", c))]
    /\ exc' = [exc EXCEPT ![c] = Some(ReRaised(TheValue(exc[c])))]
    /\ pc' = [pc EXCEPT ![c] = "finally"]
    /\ UNCHANGED <<source, live, tool, args, parsed, types, db, result, outcome,
                   fetchLog, nextSession>>

\* finally: db.close(); then the with statement is left, by the body's
\* return or by the exception in flight.
Close(c) ==
    /\ pc[c] = "finally"
    /\ sessLog' = [sessLog EXCEPT ![db[c]] = Append(@, Event("close", c))]
    /\ outcome' = [outcome EXCEPT ![c] =
                     IF exc[c] # None
                     THEN [kind |-> "raise", exc |-> TheValue(exc[c])]
                     ELSE [kind |-> "return", value |-> TheValue(result[c])]]
    /\ pc' = [pc EXCEPT ![c] = "done"]
    /\ UNCHANGED <<source, live, tool, args, parsed, types, db, exc, result,
                   fetchLog, nextSession>>

(***************************************************************************)
(* The tools.                                                              *)
(***************************************************************************)
\* The host calls a tool with its arguments.  list_users and get_user
\* open the session at once; the others parse their dates first.
Invoke(c) ==
    /\ c \in live
    /\ pc[c] = "idle"
    /\ \E t \in Tools : \E a \in ToolArgs(t) :
         /\ tool' = [tool EXCEPT ![c] = t]
         /\ args' = [args EXCEPT ![c] = a]
         /\ pc' = [pc EXCEPT ![c] = IF t \in UserTools THEN "open"
                                    ELSE "parse"]
    /\ UNCHANGED <<source, live, parsed, types, db, exc, result, outcome, sessLog,
                   fetchLog, nextSession>>

\* A parse that swallows a malformed date and carries on without it.
ParsedArgLenient(t, s) ==
    IF ParseDate(s) = None THEN Some(None) ELSE Some(ParseDate(s))

\* One date argument parsed: {} when parsing raises, else the (optional)
\* datetime, boxed.  get_workouts and get_sleep_sessions skip an absent or
\* empty date; the other tools parse whatever they are given.
ParsedArg(t, s) ==
    IF t \in ListTools THEN ParseOptDate(s)
    ELSE IF ParseDate(s) = None THEN None
    ELSE Some(ParseDate(s))

\* get_timeseries going to its query without resolving the names.
AfterParseWithoutResolve(t) == "open"

\* Where a tool goes once its dates are parsed.
AfterParse(t) == IF t = "get_timeseries" THEN "resolve" ELSE "open"

\* start = datetime.fromisoformat(...); end = datetime.fromisoformat(...)
\* ahead of the with block: a ValueError leaves the tool at once.
ParseDates(c) ==
    /\ pc[c] = "parse"
    /\ LET sd == ParsedArg(tool[c], StartArg(tool[c], args[c]))
           ed == ParsedArg(tool[c], EndArg(tool[c], args[c]))
       IN  IF sd = None \/ ed = None
           THEN /\ outcome' = [outcome EXCEPT ![c] =
                                 [kind |-> "raise", exc |-> "ValueError"]]
                /\ pc' = [pc EXCEPT ![c] = "done"]
                /\ UNCHANGED parsed
           ELSE /\ parsed' = [parsed EXCEPT ![c] =
                                [start_datetime |-> TheValue(sd),
                                 end_datetime |-> TheValue(ed)]]
                /\ pc' = [pc EXCEPT ![c] = AfterParse(tool[c])]
                /\ UNCHANGED outcome
    /\ UNCHANGED <<source, live, tool, args, types, db, exc, result, sessLog,
                   fetchLog, nextSession>>

\* get_timeseries parsing user_id ahead of the names: a malformed one
\* leaves the tool before the notice can be returned.
ResolveTypesAfterUser(c) ==
    /\ pc[c] = "resolve"
    /\ LET resolved == ResolveSeriesTypes(args[c].series_types)
       IN  /\ types' = [types EXCEPT ![c] = resolved]
           /\ IF UUID(args[c].user_id) = None
              THEN /\ outcome' = [outcome EXCEPT ![c] =
                                    [kind |-> "raise", exc |-> "ValueError"]]
                   /\ pc' = [pc EXCEPT ![c] = "done"]
              ELSE IF resolved = <<>>
              THEN /\ outcome' = [outcome EXCEPT ![c] =
                                    [kind |-> "return",
                                     value |-> NoValidTypesNotice]]
                   /\ pc' = [pc EXCEPT ![c] = "done"]
              ELSE /\ pc' = [pc EXCEPT ![c] = "open"]
                   /\ UNCHANGED outcome
    /\ UNCHANGED <<source, live, tool, args, parsed, db, exc, result, sessLog,
                   fetchLog, nextSession>>

\* get_timeseries: the names are resolved; with none left the notice is
\* returned ahead of the with block.
ResolveTypes(c) ==
    /\ pc[c] = "resolve"
    /\ LET resolved == ResolveSeriesTypes(args[c].series_types)
       IN  /\ types' = [types EXCEPT ![c] = resolved]
           /\ IF resolved = <<>>
              THEN /\ outcome' = [outcome EXCEPT ![c] =
                                    [kind |-> "return",
                                     value |-> NoValidTypesNotice]]
                   /\ pc' = [pc EXCEPT ![c] = "done"]
              ELSE /\ pc' = [pc EXCEPT ![c] = "open"]
                   /\ UNCHANGED outcome
    /\ UNCHANGED <<source, live, tool, args, parsed, db, exc, result, sessLog,
                   fetchLog, nextSession>>

NeedsUser(t) == t # "list_users"

\* Inside the with block: UUID(user_id) raises ValueError ahead of the call.
UserIdRejected(c) ==
    /\ pc[c] = "body"
    /\ NeedsUser(tool[c])
    /\ UUID(args[c].user_id) = None
    /\ exc' = [exc EXCEPT ![c] = Some("ValueError")]
    /\ pc' = [pc EXCEPT ![c] = HandlerPc("ValueError")]
    /\ UNCHANGED <<source, live, tool, args, parsed, types, db, result, outcome,
                   sessLog, fetchLog, nextSession>>

\* Inside the with block: the service is called.
CallService(c) ==
    /\ pc[c] = "body"
    /\ NeedsUser(tool[c]) => UUID(args[c].user_id) # None
    /\ fetchLog' = [fetchLog EXCEPT ![c] =
                      Append(@, [call |-> ServiceCall(tool[c], args[c],
                                                      parsed[c], types[c],
                                                      db[c]),
                                 raised |-> None])]
    /\ pc' = [pc EXCEPT ![c] = "fetch"]
    /\ UNCHANGED <<source, live, tool, args, parsed, types, db, exc, result, outcome,
                   sessLog, nextSession>>

\* The service answers; the tool computes its result and returns it from
\* inside the with block.
FetchReturns(c) ==
    /\ pc[c] = "fetch"
    /\ \E r \in ToolResults(tool[c], args[c],
                            Response(fetchLog[c][Len(fetchLog[c])].call,
                                     source)) :
         result' = [result EXCEPT ![c] = Some(r)]
    /\ pc' = [pc EXCEPT ![c] = "finally"]
    /\ UNCHANGED <<source, live, tool, args, parsed, types, db, exc, outcome,
                   sessLog, fetchLog, nextSession>>

\* The service call raises; nothing in the tool catches it.
FetchRaises(c) ==
    /\ pc[c] = "fetch"
    /\ \E e \in UpstreamErrors :
         /\ fetchLog' = [fetchLog EXCEPT ![c][Len(fetchLog[c])].raised =
                           Some(e)]
         /\ exc' = [exc EXCEPT ![c] = Some(e)]
         /\ pc' = [pc EXCEPT ![c] = HandlerPc(e)]
    /\ UNCHANGED <<source, live, tool, args, parsed, types, db, result, outcome,
                   sessLog, nextSession>>

Next ==
    \E c \in Calls :
        \/ Invoke(c)
        \/ ParseDates(c)
        \/ ResolveTypes(c)
        \/ OpenSession(c)
        \/ UserIdRejected(c)
        \/ CallService(c)
        \/ FetchReturns(c)
        \/ FetchRaises(c)
        \/ Rollback(c)
        \/ Close(c)

Spec == Init /\ [][Next]_vars

(***************************************************************************)
(* Properties of the session scope and of the tools' argument handling.    *)
(***************************************************************************)
\* The calls made on the session of invocation c, in order.
Ops(c) == [i \in DOMAIN sessLog[db[c]] |-> sessLog[db[c]][i].op]
Done(c) == pc[c] = "done"
Returned(c) == outcome[c].kind = "return"
Raised(c) == outcome[c].kind = "raise"
Fetched(c) == fetchLog[c] # <<>>
LastFetch(c) == fetchLog[c][Len(fetchLog[c])]
FetchFailed(c) == Fetched(c) /\ LastFetch(c).raised # None
\* A date argument the tool accepts: one fromisoformat parses, or one that
\* get_workouts and get_sleep_sessions skip.
DateOk(t, s) == (t \in ListTools /\ s = <<>>) \/ ParseDate(s) # None
DatesParse(c) ==
    tool[c] \notin UserTools =>
        /\ DateOk(tool[c], StartArg(tool[c], args[c]))
        /\ DateOk(tool[c], EndArg(tool[c], args[c]))
UserParses(c) == NeedsUser(tool[c]) => UUID(args[c].user_id) # None
\* The exception the with block's body raised in invocation c.
BodyRaised(c) ==
    IF FetchFailed(c) THEN TheValue(LastFetch(c).raised) ELSE "ValueError"
OwnSession(c) ==
    \A i \in DOMAIN sessLog[db[c]] : sessLog[db[c]][i].by = c

\* C1, as stated: a session that was opened is closed exactly once when the
\* tool is left; whenever the body raised, rollback was called before close,
\* and the exception the body raised is the one that reaches the caller; on
\* a normal return rollback was not called.
C1_RollbackOnEveryRaise ==
    \A c \in Calls :
        (Done(c) /\ db[c] # 0) =>
            /\ Returned(c) => Ops(c) = <<"open", "close">>
            /\ Raised(c) => /\ Ops(c) = <<"open", "rollback", "close">>
                            /\ outcome[c].exc = BodyRaised(c)

\* C1, amended: a session that was opened is closed exactly once when the
\* tool is left, by a return or by any exception, and nothing is called on
\* it afterwards; when the body raised an exception that derives from
\* Exception, rollback was called once, before close; when the body raised
\* an exception that does not (asyncio.CancelledError, KeyboardInterrupt,
\* SystemExit), rollback was not called; in both cases the exception
\* the body raised is the one that reaches the caller; on a normal return
\* rollback was not called.
C1_SessionClosedOnce ==
    \A c \in Calls :
        db[c] # 0 =>
            /\ OwnSession(c)
            /\ pc[c] \in {"body", "fetch", "except"} => Ops(c) = <<"open">>
            /\ pc[c] = "finally" =>
                 Ops(c) = IF exc[c] # None /\ IsException(TheValue(exc[c]))
                          THEN <<"open", "rollback">>
                          ELSE <<"open">>
            /\ (Done(c) /\ Returned(c)) => Ops(c) = <<"open", "close">>
            /\ (Done(c) /\ Raised(c)) =>
                 /\ outcome[c].exc = BodyRaised(c)
                 /\ Ops(c) = IF IsException(outcome[c].exc)
                             THEN <<"open", "rollback", "close">>
                             ELSE <<"open", "close">>
            /\ Done(c) => Returned(c) \/ Raised(c)

\* C1, its case: a tool left by an Exception raised in its body, its
\* session rolled back and then closed.
C1_Witness ==
    \E c \in Calls :
        /\ Done(c) /\ Raised(c) /\ outcome[c].exc = "SQLAlchemyError"
        /\ db[c] # 0 /\ Ops(c) = <<"open", "rollback", "close">>

\* C2: no invocation calls the service more than once; a summary tool that
\* returns has called it exactly once; the one call of get_heart_rate_stats
\* asks for [heart_rate, resting_heart_rate] and the one call of
\* get_activity_summary for [steps, energy, exercise_time].
C2_OneBatchedFetch ==
    \A c \in Calls :
        /\ Len(fetchLog[c]) <= 1
        /\ (tool[c] \in SummaryTools /\ Done(c) /\ Returned(c)) =>
              Len(fetchLog[c]) = 1
        /\ (tool[c] = "get_heart_rate_stats" /\ Fetched(c)) =>
              /\ LastFetch(c).call.types = <<"heart_rate", "resting_heart_rate">>
              /\ LastFetch(c).call.service = "timeseries_service.get_timeseries"
        /\ (tool[c] = "get_activity_summary" /\ Fetched(c)) =>
              /\ LastFetch(c).call.types = <<"steps", "energy", "exercise_time">>
              /\ LastFetch(c).call.service = "timeseries_service.get_timeseries"

\* C2, its case: get_heart_rate_stats has returned after its one call.
C2_Witness ==
    \E c \in Calls :
        /\ tool[c] = "get_heart_rate_stats" /\ Done(c) /\ Returned(c)
        /\ Len(fetchLog[c]) = 1
        /\ LastFetch(c).call.types = <<"heart_rate", "resting_heart_rate">>

\* C3, as stated: when the service call raised, the tool made no second
\* call and returned nothing, the exception that reaches the caller is the
\* one the call raised, and the session was rolled back and closed before
\* the exception left the tool.
C3_RollbackOnEveryFetchError ==
    \A c \in Calls :
        (FetchFailed(c) /\ Done(c)) =>
            /\ Len(fetchLog[c]) = 1
            /\ Raised(c) /\ outcome[c].exc = TheValue(LastFetch(c).raised)
            /\ Ops(c) = <<"open", "rollback", "close">>

\* C3, amended: when the service call raised, the tool made no second call
\* and returned nothing, the exception that reaches the caller is the one
\* the call raised, and the session was closed before the exception left
\* the tool, after a rollback when the exception derives from Exception and
\* without one when it does not.
C3_FetchErrorPropagates ==
    \A c \in Calls :
        FetchFailed(c) =>
            /\ Len(fetchLog[c]) = 1
            /\ result[c] = None
            /\ ~Returned(c)
            /\ exc[c] = LastFetch(c).raised
            /\ Raised(c) =>
                 /\ outcome[c].exc = TheValue(LastFetch(c).raised)
                 /\ Ops(c) = IF IsException(outcome[c].exc)
                             THEN <<"open", "rollback", "close">>
                             ELSE <<"open", "close">>
            /\ Done(c) => Raised(c)

\* C3, its case: the call of a tool raised and the tool was left with it.
C3_Witness ==
    \E c \in Calls :
        /\ FetchFailed(c) /\ Done(c) /\ Raised(c)
        /\ outcome[c].exc = "HTTPException"
        /\ Ops(c) = <<"open", "rollback", "close">>

\* C4: a summary tool given a start or end date that does not parse, or a
\* user id that is no UUID, never calls the service and never returns a
\* summary; it is left by a ValueError.
C4_MalformedInputFails ==
    \A c \in Calls :
        (tool[c] \in SummaryTools /\ (~DatesParse(c) \/ ~UserParses(c))) =>
            /\ ~Fetched(c)
            /\ result[c] = None
            /\ ~Returned(c)
            /\ Done(c) => (Raised(c) /\ outcome[c].exc = "ValueError")

\* C4, its case: a summary tool whose dates parse, left by the ValueError
\* of a malformed user id without having called the service.
C4_Witness ==
    \E c \in Calls :
        /\ tool[c] \in SummaryTools /\ DatesParse(c) /\ ~UserParses(c)
        /\ Done(c) /\ Raised(c) /\ outcome[c].exc = "ValueError"
        /\ ~Fetched(c)

\* The recognized names of a list, in order, duplicates kept.
RECURSIVE Recognized(_)
Recognized(names) ==
    IF names = <<>> THEN <<>>
    ELSE IF Head(names) \in {"heart_rate", "resting_heart_rate", "steps",
                             "energy", "exercise_time"}
    THEN <<Head(names)>> \o Recognized(Tail(names))
    ELSE Recognized(Tail(names))

\* C5, as stated: get_timeseries called with no recognized series type
\* returns the notice, without calling the service and without opening a
\* session.
C5_NoticeWheneverNoValidType ==
    \A c \in Calls :
        (tool[c] = "get_timeseries" /\ Recognized(args[c].series_types) = <<>>
         /\ Done(c)) =>
            /\ outcome[c] = [kind |-> "return", value |-> NoValidTypesNotice]
            /\ ~Fetched(c)
            /\ db[c] = 0

\* C5, amended: get_timeseries called with no recognized series type never
\* calls the service and never opens a session; when both of its datetime
\* strings parse it returns the notice (an "error" message and an empty
\* "data" list), and when one does not it is left by the ValueError of the
\* parse instead.
C5_NoticeWhenDatesParse ==
    \A c \in Calls :
        (tool[c] = "get_timeseries"
         /\ Recognized(args[c].series_types) = <<>>) =>
            /\ ~Fetched(c)
            /\ db[c] = 0
            /\ (Done(c) /\ DatesParse(c)) =>
                 /\ Returned(c)
                 /\ DOMAIN outcome[c].value = {"error", "data"}
                 /\ outcome[c].value.data = <<>>
            /\ (Done(c) /\ ~DatesParse(c)) =>
                 (Raised(c) /\ outcome[c].exc = "ValueError")

\* C5, its case: the notice returned for ["bogus"].
C5_Witness ==
    \E c \in Calls :
        /\ tool[c] = "get_timeseries" /\ args[c].series_types = <<"bogus">>
        /\ Done(c) /\ Returned(c) /\ outcome[c].value = NoValidTypesNotice
        /\ ~Fetched(c) /\ db[c] = 0

\* C6: a get_timeseries call that reaches the service asks for exactly the
\* recognized names of its series_types, in the requested order, duplicates
\* kept; no exception is raised on account of an unrecognized name (with
\* dates that parse, a user id that is a UUID and a recognized name in the
\* list, the service is called, and the tool returns unless that call
\* raises); the result's requested_types is the list as the caller gave it.
C6_UnknownTypesDropped ==
    \A c \in Calls :
        tool[c] = "get_timeseries" =>
            /\ Fetched(c) =>
                 LastFetch(c).call.types = Recognized(args[c].series_types)
            /\ (Done(c) /\ DatesParse(c) /\ UserParses(c)
                /\ Recognized(args[c].series_types) # <<>>) =>
                 /\ Fetched(c)
                 /\ Returned(c) \/ FetchFailed(c)
            /\ (Done(c) /\ Returned(c) /\ Fetched(c)) =>
                 outcome[c].value.metadata.requested_types
                    = args[c].series_types

\* C6, its case: a list with an unrecognized name and a repeated recognized
\* one has been queried and answered.
C6_Witness ==
    \E c \in Calls :
        /\ tool[c] = "get_timeseries"
        /\ args[c].series_types = <<"steps", "bogus", "steps">>
        /\ Done(c) /\ Returned(c)
        /\ LastFetch(c).call.types = <<"steps", "steps">>
        /\ outcome[c].value.metadata.requested_types
              = <<"steps", "bogus", "steps">>

\* The limit a tool is to hand to the service for a requested limit.
ClampedTo(cap, limit) == IF limit > cap THEN cap ELSE limit

\* C7: the limit handed to the service is the requested limit when that is
\* at most the tool's cap (a zero or negative one included) and the cap
\* otherwise: 100 for list_users, get_workouts and get_sleep_sessions, 1000
\* for get_timeseries, get_heart_rate_data and get_steps_data; the summary
\* tools hand over 500 (workouts), 100 (sleep) and 10000 (heart rate,
\* activity); and no tool is left by an exception on account of its limit:
\* an exception has another cause (a date, the user id, the service).
C7_LimitClamped ==
    \A c \in Calls :
        /\ (Fetched(c) /\ tool[c] # "get_user") =>
             LET limit == LastFetch(c).call.params.limit
             IN  /\ tool[c] \in {"list_users", "get_workouts",
                                 "get_sleep_sessions"} =>
                      (limit = ClampedTo(100, args[c].limit) /\ limit <= 100)
                 /\ tool[c] \in {"get_timeseries", "get_heart_rate_data",
                                 "get_steps_data"} =>
                      (limit = ClampedTo(1000, args[c].limit) /\ limit <= 1000)
                 /\ tool[c] = "get_workout_summary" => limit = 500
                 /\ tool[c] = "get_sleep_summary" => limit = 100
                 /\ tool[c] \in {"get_heart_rate_stats",
                                 "get_activity_summary"} => limit = 10000
        /\ (Done(c) /\ Raised(c)) =>
             (~DatesParse(c) \/ ~UserParses(c) \/ FetchFailed(c))

\* C7, its case: get_workouts asked for 1001 rows has queried 100 and
\* returned.
C7_Witness ==
    \E c \in Calls :
        /\ tool[c] = "get_workouts" /\ args[c].limit = 1001
        /\ Done(c) /\ Returned(c)
        /\ LastFetch(c).call.params.limit = 100

\* C18: over an empty fetched list each summary tool returns its zero or
\* null shape and does not raise: the workout summary zero totals and an
\* empty workout_types mapping, the sleep summary zero counts, the
\* heart-rate stats both blocks null and a count of 0, the activity summary
\* its three blocks null.
C18_EmptyShapes ==
    \A c \in Calls :
        (/\ tool[c] \in SummaryTools /\ source = EmptySource
         /\ Done(c) /\ Fetched(c) /\ ~FetchFailed(c)) =>
            LET period == [start |-> args[c].start_date,
                           end |-> args[c].end_date]
            IN  /\ Returned(c)
                /\ tool[c] = "get_workout_summary" =>
                      outcome[c].value
                         = [total_workouts |-> 0,
                            total_duration_seconds |-> 0,
                            total_duration_hours |-> 0,
                            workout_types |-> <<>>,
                            avg_duration_minutes |-> 0,
                            period |-> period]
                /\ tool[c] = "get_sleep_summary" =>
                      outcome[c].value
                         = [total_sessions |-> 0, main_sleep_sessions |-> 0,
                            naps |-> 0, period |-> period]
                /\ tool[c] = "get_heart_rate_stats" =>
                      outcome[c].value
                         = [heart_rate |-> {}, resting_heart_rate |-> {},
                            data_points |-> 0, period |-> period]
                /\ tool[c] = "get_activity_summary" =>
                      outcome[c].value
                         = [steps |-> {}, energy |-> {}, exercise_time |-> {},
                            period |-> period]

\* C18, its case: get_sleep_summary has returned the zero-count shape for a
\* source without sessions.
C18_Witness ==
    \E c \in Calls :
        /\ tool[c] = "get_sleep_summary" /\ source = EmptySource
        /\ Done(c) /\ Returned(c) /\ Len(fetchLog[c]) = 1
        /\ outcome[c].value.total_sessions = 0
        /\ DOMAIN outcome[c].value
              = {"total_sessions", "main_sleep_sessions", "naps", "period"}

\* C19: every result a summary tool returns, the shape for an empty list
\* and the normal shape alike, has a period whose start and end are the
\* start_date and end_date strings of the caller, as passed.
C19_PeriodEchoed ==
    \A c \in Calls :
        (tool[c] \in SummaryTools) =>
            /\ \A r \in result[c] :
                  r.period = [start |-> args[c].start_date,
                              end |-> args[c].end_date]
            /\ (Done(c) /\ Returned(c)) =>
                  outcome[c].value.period
                     = [start |-> args[c].start_date,
                        end |-> args[c].end_date]

\* C19, its case: get_workout_summary called with a start_date ending in Z
\* has returned a summary of a fetched workout, the period as passed.
C19_Witness ==
    \E c \in Calls :
        /\ tool[c] = "get_workout_summary" /\ source = FullSource
        /\ args[c].start_date = DateZulu /\ args[c].end_date = DatePlain
        /\ Done(c) /\ Returned(c)
        /\ outcome[c].value.total_workouts = 1
        /\ outcome[c].value.period = [start |-> DateZulu, end |-> DatePlain]

(***************************************************************************)
(* get_workout_summary over the workouts the source may hold: the tool     *)
(* stands at its service call, its session open, and goes on from there.   *)
(***************************************************************************)
\* Workouts of every type and duration without a heart rate, and running
\* workouts with one (0 bpm included).
WorkoutRecords ==
    [type : {None, Some("running"), Some("cycling")},
     duration_seconds : {None, Some(9), Some(1800)},
     avg_heart_rate_bpm : {None}]
    \cup
    [type : {Some("running")},
     duration_seconds : {Some(1800)},
     avg_heart_rate_bpm : {Some(0), Some(120), Some(131)}]

TaggedWorkout(tag) ==
    [type |-> Some(tag), duration_seconds |-> Some(1800),
     avg_heart_rate_bpm |-> Some(131)]

\* Every order of three workouts of type A, five of type B and one of
\* type C.
OrderingExamples ==
    {[i \in 1 .. 9 |-> TaggedWorkout(f[i])] :
        f \in {g \in [1 .. 9 -> {"A", "B", "C"}] :
                 /\ Cardinality({i \in 1 .. 9 : g[i] = "A"}) = 3
                 /\ Cardinality({i \in 1 .. 9 : g[i] = "B"}) = 5}}

WorkoutInputs == SeqsUpTo(WorkoutRecords, MaxWorkouts) \cup OrderingExamples

SummaryArgs ==
    [user_id |-> UserCanonical, start_date |-> DateZulu,
     end_date |-> DatePlain]
SummaryDates ==
    [start_datetime |-> ParseDate(DateZulu),
     end_datetime |-> ParseDate(DatePlain)]

\* Invocation 1 of tool t stands at its service call.
AtServiceCall(t) ==
    /\ live = {1}
    /\ pc = [c \in Calls |-> IF c = 1 THEN "fetch" ELSE "idle"]
    /\ tool = [c \in Calls |-> IF c = 1 THEN t ELSE "none"]
    /\ args = [c \in Calls |-> IF c = 1 THEN SummaryArgs ELSE <<>>]
    /\ parsed = [c \in Calls |-> IF c = 1 THEN SummaryDates ELSE NoDates]
    /\ types = [c \in Calls |-> <<>>]
    /\ db = [c \in Calls |-> IF c = 1 THEN 1 ELSE 0]
    /\ exc = [c \in Calls |-> None]
    /\ result = [c \in Calls |-> None]
    /\ outcome = [c \in Calls |-> [kind |-> "none"]]
    /\ sessLog = [s \in Calls |-> IF s = 1 THEN <<Event("open", 1)>>
                                 ELSE <<>>]
    /\ fetchLog = [c \in Calls |->
                     IF c = 1
                     THEN <<[call |-> ServiceCall(t, SummaryArgs,
                                                  SummaryDates, <<>>, 1),
                             raised |-> None]>>
                     ELSE <<>>]
    /\ nextSession = 2

InitWorkout ==
    /\ source \in {[EmptySource EXCEPT !.workouts = ws] : ws \in WorkoutInputs}
    /\ AtServiceCall("get_workout_summary")

NextSummary == \E c \in Calls : FetchReturns(c) \/ Close(c)

SpecWorkout == InitWorkout /\ [][NextSummary]_vars

(***************************************************************************)
(* Properties of get_workout_summary.                                      *)
(***************************************************************************)
\* The summary invocation 1 computed, and the workouts it was computed from.
Summarised == result[1] # None
Summary == TheValue(result[1])
Fetched1 == source.workouts

\* The type tag a workout is counted under.
TagOf(w) == IF w.type = {} THEN "unknown" ELSE CHOOSE t \in w.type : TRUE
TagCount(ws, tag) == Cardinality({k \in DOMAIN ws : TagOf(ws[k]) = tag})
FirstSeen(ws, tag) ==
    CHOOSE k \in DOMAIN ws :
        /\ TagOf(ws[k]) = tag
        /\ \A j \in 1 .. k - 1 : TagOf(ws[j]) # tag
SecondsOf(w) == IF w.duration_seconds = {} THEN 0
                ELSE CHOOSE d \in w.duration_seconds : TRUE
RECURSIVE SecondsIn(_)
SecondsIn(ws) == IF ws = <<>> THEN 0
                 ELSE SecondsOf(Head(ws)) + SecondsIn(Tail(ws))
\* v is num / den rounded to a multiple of 1 / scale (v counts them).
IsRounded(v, num, den, scale) ==
    LET diff == v * den - num * scale
    IN  2 * diff <= den /\ 2 * diff >= 0 - den

\* C8: the workout_types breakdown of get_workout_summary lists every type
\* tag of the fetched workouts once, with its number of workouts, in
\* descending order of that number, types with the same number in the order
\* in which they were first met in the fetched list; workouts of types A x3,
\* B x5, C x1 give B, A, C in whatever order they were fetched.
C8_BreakdownOrder ==
    (Summarised /\ Fetched1 # <<>>) =>
        LET wt == Summary.workout_types
            ws == Fetched1
        IN  /\ {wt[i].wtype : i \in DOMAIN wt}
                  = {TagOf(ws[k]) : k \in DOMAIN ws}
            /\ \A i, j \in DOMAIN wt : i # j => wt[i].wtype # wt[j].wtype
            /\ \A i \in DOMAIN wt : wt[i].count = TagCount(ws, wt[i].wtype)
            /\ \A i, j \in DOMAIN wt :
                  i < j =>
                     \/ wt[i].count > wt[j].count
                     \/ /\ wt[i].count = wt[j].count
                        /\ FirstSeen(ws, wt[i].wtype)
                              < FirstSeen(ws, wt[j].wtype)
            /\ (TagCount(ws, "A") = 3 /\ TagCount(ws, "B") = 5
                /\ TagCount(ws, "C") = 1 /\ Len(ws) = 9) =>
                  [i \in DOMAIN wt |-> wt[i].wtype] = <<"B", "A", "C">>

\* C8, its case: the summary of C, A, A, A, B, B, B, B, B lists B, A, C.
C8_Witness ==
    /\ Summarised
    /\ [k \in DOMAIN Fetched1 |-> TagOf(Fetched1[k])]
          = <<"C", "A", "A", "A", "B", "B", "B", "B", "B">>
    /\ [i \in DOMAIN Summary.workout_types |->
          Summary.workout_types[i].wtype] = <<"B", "A", "C">>

\* C9: over a non-empty fetched list, total_workouts is the number of
\* fetched workouts, total_duration_seconds the sum of the durations that
\* are present, avg_duration_minutes that total over the number of all
\* workouts (in minutes, to one decimal); a workout without a type is
\* counted under "unknown"; the per-type counts add up to total_workouts and
\* the per-type durations to total_duration_seconds, each type's minutes
\* being its workouts' seconds to one decimal of a minute.
C9_Totals ==
    (Summarised /\ Fetched1 # <<>>) =>
        LET ws == Fetched1
            wt == Summary.workout_types
            items == TypeItems(ws, <<>>)
            of(tag) == SelectSeq(ws, LAMBDA w : TagOf(w) = tag)
        IN  /\ Summary.total_workouts = Len(ws)
            /\ Summary.total_duration_seconds = SecondsIn(ws)
            /\ IsRounded(Summary.avg_duration_minutes, SecondsIn(ws),
                         Len(ws) * 60, 10)
            /\ (\E k \in DOMAIN ws : ws[k].type = {}) =>
                  \E i \in DOMAIN wt :
                     /\ wt[i].wtype = "unknown"
                     /\ wt[i].count
                          = Cardinality({k \in DOMAIN ws : ws[k].type = {}})
            /\ SumSeq([i \in DOMAIN wt |-> wt[i].count])
                  = Summary.total_workouts
            /\ SumSeq([i \in DOMAIN items |-> items[i].duration])
                  = Summary.total_duration_seconds
            /\ {items[i].wtype : i \in DOMAIN items}
                  = {wt[i].wtype : i \in DOMAIN wt}
            /\ \A i \in DOMAIN wt :
                  IsRounded(wt[i].total_duration_minutes,
                            SecondsIn(of(wt[i].wtype)), 60, 10)

\* C9, its case: three workouts, one without a duration and one without a
\* type, summarised.
C9_Witness ==
    /\ Summarised /\ Len(Fetched1) = 3
    /\ Fetched1[1].duration_seconds = {} /\ Fetched1[1].type = {"cycling"}
    /\ Fetched1[2].duration_seconds = {1800} /\ Fetched1[2].type = {}
    /\ Fetched1[3].duration_seconds = {1800} /\ Fetched1[3].type = {"cycling"}
    /\ Summary.total_workouts = 3
    /\ Summary.total_duration_seconds = 3600
    /\ Summary.avg_duration_minutes = 200

\* C10: the heart_rate block of get_workout_summary holds the mean (to one
\* decimal) of avg_heart_rate_bpm over the workouts that report one and the
\* number of those workouts, and it is null exactly when no fetched workout
\* reports one.
C10_HeartRateOverReporting ==
    (Summarised /\ Fetched1 # <<>>) =>
        LET ws == Fetched1
            reporting == SelectSeq(ws, LAMBDA w : w.avg_heart_rate_bpm # {})
            bpm(w) == CHOOSE h \in w.avg_heart_rate_bpm : TRUE
            total == SumSeq([i \in DOMAIN reporting |-> bpm(reporting[i])])
        IN  /\ Summary.heart_rate = {} <=> reporting = <<>>
            /\ \A hr \in Summary.heart_rate :
                  /\ hr.workouts_with_hr_data = Len(reporting)
                  /\ IsRounded(hr.avg_across_workouts, total,
                               Len(reporting), 10)

(***************************************************************************)
(* get_sleep_summary over the fetched sessions.                            *)
(***************************************************************************)
MaxSessions == 3

StagesQuarter ==
    [deep_seconds |-> Some(1000), light_seconds |-> Some(2000),
     rem_seconds |-> Some(1000), awake_seconds |-> Some(500)]
StagesAwakeOnly ==
    [deep_seconds |-> None, light_seconds |-> None,
     rem_seconds |-> Some(0), awake_seconds |-> Some(600)]
StagesPartial ==
    [deep_seconds |-> Some(3600), light_seconds |-> None,
     rem_seconds |-> Some(1800), awake_seconds |-> None]

\* Main sleeps with and without a duration, an efficiency (0 included) and
\* stages, and two naps.
SleepRecords ==
    [duration_seconds : {None, Some(27000)}, efficiency_percent : {None},
     is_nap : {FALSE}, stages : {None}]
    \cup
    [duration_seconds : {Some(27000)}, efficiency_percent : {Some(0), Some(85)},
     is_nap : {FALSE}, stages : {None}]
    \cup
    [duration_seconds : {Some(27000)}, efficiency_percent : {None},
     is_nap : {FALSE},
     stages : {Some(StagesQuarter), Some(StagesAwakeOnly),
               Some(StagesPartial)}]
    \cup
    {[duration_seconds |-> Some(1800), efficiency_percent |-> Some(50),
      is_nap |-> TRUE, stages |-> Some(StagesPartial)],
     [duration_seconds |-> None, efficiency_percent |-> None,
      is_nap |-> TRUE, stages |-> None]}

SleepInputs == SeqsUpTo(SleepRecords, MaxSessions)

InitSleep ==
    /\ source \in {[EmptySource EXCEPT !.sleeps = ss] : ss \in SleepInputs}
    /\ AtServiceCall("get_sleep_summary")

SpecSleep == InitSleep /\ [][NextSummary]_vars

(***************************************************************************)
(* Properties of get_sleep_summary.                                        *)
(***************************************************************************)
Sessions1 == source.sleeps
MainOf(ss) == SelectSeq(ss, LAMBDA x : x.is_nap = FALSE)
NapsOf(ss) == SelectSeq(ss, LAMBDA x : x.is_nap = TRUE)
\* The number an optional field stands for in a sum: 0 when it is absent.
Sec(opt) == IF opt = {} THEN 0 ELSE CHOOSE v \in opt : TRUE
RECURSIVE SleepSeconds(_)
SleepSeconds(ss) == IF ss = <<>> THEN 0
                    ELSE Sec(Head(ss).duration_seconds) + SleepSeconds(Tail(ss))
RECURSIVE EfficiencySum(_)
EfficiencySum(ss) ==
    IF ss = <<>> THEN 0
    ELSE Sec(Head(ss).efficiency_percent) + EfficiencySum(Tail(ss))

\* C11: get_sleep_summary counts every fetched session as a main sleep or
\* as a nap, so that total_sessions = main_sleep_sessions + naps; the
\* average and the total duration are those of the main sleeps alone;
\* avg_efficiency_percent is the mean (to one decimal) over the main sleeps
\* whose efficiency is present, 0 included, and null when there is none;
\* over naps only, the averages and the total are 0.
C11_MainSleepAverages ==
    (Summarised /\ Sessions1 # <<>>) =>
        LET ss == Sessions1
            main == MainOf(ss)
            secs == SleepSeconds(main)
            reporting == SelectSeq(main, LAMBDA x : x.efficiency_percent # {})
        IN  /\ Summary.total_sessions = Len(ss)
            /\ Summary.main_sleep_sessions = Len(main)
            /\ Summary.naps = Len(NapsOf(ss))
            /\ Summary.total_sessions
                  = Summary.main_sleep_sessions + Summary.naps
            /\ IsRounded(Summary.total_sleep_hours, secs, 3600, 100)
            /\ main # <<>> =>
                  /\ IsRounded(Summary.avg_duration_minutes, secs,
                               Len(main) * 60, 10)
                  /\ IsRounded(Summary.avg_duration_hours, secs,
                               Len(main) * 3600, 100)
            /\ main = <<>> =>
                  /\ Summary.avg_duration_minutes = 0
                  /\ Summary.avg_duration_hours = 0
                  /\ Summary.total_sleep_hours = 0
            /\ Summary.avg_efficiency_percent = {} <=> reporting = <<>>
            /\ \A e \in Summary.avg_efficiency_percent :
                  IsRounded(e, EfficiencySum(reporting), Len(reporting), 10)

\* C11, its case: a nap and two main sleeps of efficiency 0 and 85 give
\* three sessions, an average of 450 minutes and an efficiency of 42.5.
C11_Witness ==
    /\ Summarised /\ Len(Sessions1) = 3
    /\ Sessions1[1].is_nap /\ Sessions1[1].duration_seconds = {1800}
    /\ ~Sessions1[2].is_nap /\ Sessions1[2].efficiency_percent = {0}
    /\ ~Sessions1[3].is_nap /\ Sessions1[3].efficiency_percent = {85}
    /\ Summary.total_sessions = 3 /\ Summary.main_sleep_sessions = 2
    /\ Summary.naps = 1
    /\ Summary.avg_duration_minutes = 4500
    /\ Summary.avg_efficiency_percent = {425}

\* The main sleeps that carry a stages sub-record, and their stage seconds.
StagedOf(ss) == SelectSeq(MainOf(ss), LAMBDA x : x.stages # {})
StagesOf(x) == CHOOSE st \in x.stages : TRUE
RECURSIVE DeepIn(_)
DeepIn(ss) == IF ss = <<>> THEN 0
              ELSE Sec(StagesOf(Head(ss)).deep_seconds) + DeepIn(Tail(ss))
RECURSIVE LightIn(_)
LightIn(ss) == IF ss = <<>> THEN 0
               ELSE Sec(StagesOf(Head(ss)).light_seconds) + LightIn(Tail(ss))
RECURSIVE RemIn(_)
RemIn(ss) == IF ss = <<>> THEN 0
             ELSE Sec(StagesOf(Head(ss)).rem_seconds) + RemIn(Tail(ss))
RECURSIVE AwakeIn(_)
AwakeIn(ss) == IF ss = <<>> THEN 0
               ELSE Sec(StagesOf(Head(ss)).awake_seconds) + AwakeIn(Tail(ss))
\* The optional number opt is present and is num / den rounded.
IsSomeRounded(opt, num, den, scale) ==
    opt # {} /\ \A v \in opt : IsRounded(v, num, den, scale)

\* C12: over a non-empty fetched list, the per-stage averages of
\* get_sleep_summary are the deep, light, rem and awake seconds summed over
\* the main sleeps that carry a stages sub-record (a missing value counting
\* as 0), divided by the number of those sessions, in minutes to one
\* decimal; naps contribute nothing; the sleep_stages_avg block is null
\* exactly when no main sleep carries a stages sub-record.
C12_StageAverages ==
    (Summarised /\ Sessions1 # <<>>) =>
        LET staged == StagedOf(Sessions1)
            n == Len(staged)
        IN  /\ Summary.sleep_stages_avg = {} <=> staged = <<>>
            /\ \A b \in Summary.sleep_stages_avg :
                  /\ IsSomeRounded(b.deep_minutes, DeepIn(staged), n * 60, 10)
                  /\ IsSomeRounded(b.light_minutes, LightIn(staged),
                                   n * 60, 10)
                  /\ IsSomeRounded(b.rem_minutes, RemIn(staged), n * 60, 10)
                  /\ IsSomeRounded(b.awake_minutes, AwakeIn(staged),
                                   n * 60, 10)

\* C12, its case: a main sleep without stages, a main sleep with 3600 s
\* deep and 1800 s rem, and a nap with stages: the averages are those of
\* the one main sleep with stages, 60.0 and 30.0 minutes.
C12_Witness ==
    /\ Summarised /\ Len(Sessions1) = 3
    /\ ~Sessions1[1].is_nap /\ Sessions1[1].stages = {}
    /\ ~Sessions1[2].is_nap /\ Sessions1[2].stages = {StagesPartial}
    /\ Sessions1[3].is_nap /\ Sessions1[3].stages = {StagesPartial}
    /\ \E b \in Summary.sleep_stages_avg :
          /\ b.deep_minutes = {600} /\ b.rem_minutes = {300}
          /\ b.light_minutes = {0} /\ b.awake_minutes = {0}

\* C13: deep_percent and rem_percent of get_sleep_summary are the deep and
\* the rem total as a share of the deep + light + rem total (time awake is
\* not in the denominator), to one decimal, each null when that total is 0
\* and each between 0 and 100; deep 1000 s, light 2000 s, rem 1000 s and
\* awake 500 s give 25.0 and 25.0.
C13_StagePercentages ==
    Summarised =>
        \A b \in (IF Sessions1 = <<>> THEN {} ELSE Summary.sleep_stages_avg) :
            LET staged == StagedOf(Sessions1)
                deep == DeepIn(staged)
                light == LightIn(staged)
                rem == RemIn(staged)
                asleep == deep + light + rem
            IN  /\ asleep = 0 => b.deep_percent = {} /\ b.rem_percent = {}
                /\ asleep > 0 =>
                      /\ IsSomeRounded(b.deep_percent, deep * 100, asleep, 10)
                      /\ IsSomeRounded(b.rem_percent, rem * 100, asleep, 10)
                /\ \A v \in b.deep_percent \cup b.rem_percent :
                      0 <= v /\ v <= 1000
                /\ (deep = 1000 /\ light = 2000 /\ rem = 1000
                    /\ AwakeIn(staged) = 500) =>
                      b.deep_percent = {250} /\ b.rem_percent = {250}

\* C13, its case: one main sleep of 1000 s deep, 2000 s light, 1000 s rem
\* and 500 s awake has 25.0 percent deep and 25.0 percent rem.
C13_Witness ==
    /\ Summarised /\ Len(Sessions1) = 1
    /\ Sessions1[1].stages = {StagesQuarter} /\ ~Sessions1[1].is_nap
    /\ \E b \in Summary.sleep_stages_avg :
          b.deep_percent = {250} /\ b.rem_percent = {250}

(***************************************************************************)
(* get_heart_rate_stats over the fetched samples.                          *)
(***************************************************************************)
MaxSamples == 4

\* Heart-rate samples of 60.1 and 61.2 bpm, a resting heart rate and a
\* sample of another series.
HeartRateSamples ==
    {[type |-> "heart_rate", value |-> 6010, unit |-> "bpm",
      timestamp |-> Some([date |-> "2024-01-01"])],
     [type |-> "heart_rate", value |-> 6120, unit |-> "bpm",
      timestamp |-> Some([date |-> "2024-01-01"])],
     [type |-> "resting_heart_rate", value |-> 5000, unit |-> "bpm",
      timestamp |-> Some([date |-> "2024-01-01"])],
     [type |-> "steps", value |-> 120000, unit |-> "count",
      timestamp |-> Some([date |-> "2024-01-01"])]}

\* Six heart-rate samples of 40.05 bpm: round(40.05, 1) is 40.0, and the
\* float mean sum([40.05] * 6) / 6 is 40.050000000000004.
SixEqualSamples ==
    [i \in 1 .. 6 |->
       [type |-> "heart_rate", value |-> 4005, unit |-> "bpm",
        timestamp |-> Some([date |-> "2024-01-01"])]]

\* Heart-rate samples of 58.5, 78.95 and 130.6 bpm, in every order.
UnevenSamples ==
    {[i \in 1 .. 3 |->
        [type |-> "heart_rate", value |-> vs[i], unit |-> "bpm",
         timestamp |-> Some([date |-> "2024-01-01"])]] :
       vs \in QuotientBelowMean \cup QuotientAboveMean}

HeartRateInputs ==
    SeqsUpTo(HeartRateSamples, MaxSamples) \cup {SixEqualSamples}
       \cup UnevenSamples

InitHeartRate ==
    /\ source \in {[EmptySource EXCEPT !.samples = d] : d \in HeartRateInputs}
    /\ AtServiceCall("get_heart_rate_stats")

SpecHeartRate == InitHeartRate /\ [][NextSummary]_vars

(***************************************************************************)
(* Properties of get_heart_rate_stats.                                     *)
(***************************************************************************)
Samples1 == source.samples
\* The values of the fetched samples of one series, in fetched order.
Tagged(data, tag) ==
    LET of == SelectSeq(data, LAMBDA x : x.type = tag)
    IN  [i \in DOMAIN of |-> of[i].value]
Least(vals) == CHOOSE v \in {vals[i] : i \in DOMAIN vals} :
                  \A i \in DOMAIN vals : v <= vals[i]
Greatest(vals) == CHOOSE v \in {vals[i] : i \in DOMAIN vals} :
                     \A i \in DOMAIN vals : v >= vals[i]
RECURSIVE Total(_)
Total(vals) == IF vals = <<>> THEN 0 ELSE Head(vals) + Total(Tail(vals))

\* C14: when the fetched batch holds no heart_rate and no
\* resting_heart_rate sample, get_heart_rate_stats returns the flat shape:
\* heart_rate null, resting_heart_rate null, data_points 0 and the period,
\* and the call returns.
C14_FlatShapeWithoutSamples ==
    (Tagged(Samples1, "heart_rate") = <<>>
     /\ Tagged(Samples1, "resting_heart_rate") = <<>>) =>
        /\ Summarised =>
              Summary = [heart_rate |-> {},
                         resting_heart_rate |-> {},
                         data_points |-> 0,
                         period |-> [start |-> SummaryArgs.start_date,
                                     end |-> SummaryArgs.end_date]]
        /\ Done(1) => Returned(1)

\* C14, its case: a batch of two steps samples, answered with the flat
\* shape.
C14_Witness ==
    /\ Done(1) /\ Returned(1)
    /\ Len(Samples1) = 2
    /\ \A i \in DOMAIN Samples1 : Samples1[i].type = "steps"
    /\ Summary.data_points = 0 /\ Summary.heart_rate = {}
    /\ Summary.resting_heart_rate = {}

\* The optional block holds the least, the greatest and the mean of vals,
\* each to one decimal, and their number; it is null when vals is empty.
BlockAgrees(block, vals) ==
    /\ block = {} <=> vals = <<>>
    /\ \A b \in block :
          /\ IsRounded(b.min_bpm, Least(vals), 10, 1)
          /\ IsRounded(b.max_bpm, Greatest(vals), 10, 1)
          /\ IsRounded(b.avg_bpm, Total(vals), Len(vals) * 10, 1)
          /\ b.data_points = Len(vals)
\* What C15 says apart from the order of min, mean and max.
BlocksAgree ==
    LET hr == Tagged(Samples1, "heart_rate")
        rs == Tagged(Samples1, "resting_heart_rate")
    IN  (Summarised /\ (hr # <<>> \/ rs # <<>>)) =>
           /\ BlockAgrees(Summary.heart_rate, hr)
           /\ BlockAgrees(Summary.resting_heart_rate, rs)
           /\ Summary.total_data_points = Len(hr) + Len(rs)

\* C15: get_heart_rate_stats splits the fetched samples by type into the
\* heart_rate and the resting_heart_rate values, ignoring other types; the
\* block of a non-empty sequence holds its min, max, mean and count, with
\* min <= mean <= max; an empty sequence beside a non-empty one gives a
\* null block; the combined count is the sum of the two lengths.
C15_BlocksOrdered ==
    /\ BlocksAgree
    /\ (Summarised /\ "total_data_points" \in DOMAIN Summary) =>
          \A b \in Summary.heart_rate \cup Summary.resting_heart_rate :
             b.min_bpm <= b.avg_bpm /\ b.avg_bpm <= b.max_bpm

(***************************************************************************)
(* get_activity_summary over the fetched samples.                          *)
(***************************************************************************)
ActivitySample(type, value, timestamp) ==
    [type |-> type, value |-> value, unit |-> "", timestamp |-> timestamp]
FirstDay == Some([date |-> "2024-01-01"])
SecondDay == Some([date |-> "2024-01-02"])

\* Steps on two days (one sample without a timestamp), energy on two days
\* and exercise time on one.
ActivitySamples ==
    {ActivitySample("steps", 10000, FirstDay),
     ActivitySample("steps", 30000, FirstDay),
     ActivitySample("steps", 50000, SecondDay),
     ActivitySample("steps", 30100, None),
     ActivitySample("energy", 12050, FirstDay),
     ActivitySample("energy", 8007, SecondDay),
     ActivitySample("exercise_time", 3000, FirstDay)}

ActivityInputs == SeqsUpTo(ActivitySamples, MaxSamples)

InitActivity ==
    /\ source \in {[EmptySource EXCEPT !.samples = d] : d \in ActivityInputs}
    /\ AtServiceCall("get_activity_summary")

SpecActivity == InitActivity /\ [][NextSummary]_vars

(***************************************************************************)
(* Properties of get_activity_summary.                                     *)
(***************************************************************************)
\* The calendar dates of the fetched samples of one series.
DatesOf(data, tag) ==
    {d \in {"2024-01-01", "2024-01-02"} :
        \E i \in DOMAIN data :
           /\ data[i].type = tag
           /\ data[i].timestamp = {[date |-> d]}}
Divisor(data, tag) ==
    IF DatesOf(data, tag) = {} THEN 1 ELSE Cardinality(DatesOf(data, tag))
\* v is the whole part of num / den.
IsWholePart(v, num, den) == v * den <= num /\ num < (v + 1) * den

\* C16: the steps avg_per_day of get_activity_summary is (the whole part
\* of) the steps total divided by the number of distinct calendar dates of
\* the fetched steps samples, a divisor of at least 1 that is not the number
\* of samples and takes no date from another series; the energy average is
\* the energy total over the dates of the energy samples, to one decimal;
\* steps of 100 and 300 on one date and 500 on another give a total of 900
\* and 450 per day.
C16_AveragePerDay ==
    Summarised =>
        LET steps == Tagged(Samples1, "steps")
            energy == Tagged(Samples1, "energy")
        IN  /\ \A b \in Summary.steps :
                  /\ IsWholePart(b.total, Total(steps), 100)
                  /\ IsWholePart(b.avg_per_day, Total(steps),
                                 100 * Divisor(Samples1, "steps"))
            /\ \A b \in Summary.energy :
                  /\ IsRounded(b.total_kcal, Total(energy), 10, 1)
                  /\ IsRounded(b.avg_kcal_per_day, Total(energy),
                               10 * Divisor(Samples1, "energy"), 1)
            /\ ({<<Samples1[i].timestamp, Samples1[i].value>> :
                   i \in {j \in DOMAIN Samples1 : Samples1[j].type = "steps"}}
                  = {<<FirstDay, 10000>>, <<FirstDay, 30000>>,
                     <<SecondDay, 50000>>}
                /\ Len(steps) = 3) =>
                  \E b \in Summary.steps :
                     b.total = 900 /\ b.avg_per_day = 450

\* C16, its case: steps of 100 and 300 on the first day and 500 on the
\* second: 900 steps, 450 per day.
C16_Witness ==
    /\ Summarised /\ Len(Samples1) = 3
    /\ Samples1[1] = ActivitySample("steps", 10000, FirstDay)
    /\ Samples1[2] = ActivitySample("steps", 50000, SecondDay)
    /\ Samples1[3] = ActivitySample("steps", 30000, FirstDay)
    /\ \E b \in Summary.steps :
          b.total = 900 /\ b.avg_per_day = 450 /\ b.data_points = 3

\* C17: each of the steps, energy and exercise_time blocks of
\* get_activity_summary is null exactly when the fetched batch holds no
\* sample of its series type, whatever the other two hold; the
\* exercise_time block holds a total and a count and nothing else.
C17_BlocksIndependent ==
    Summarised =>
        /\ Summary.steps = {} <=> Tagged(Samples1, "steps") = <<>>
        /\ Summary.energy = {} <=> Tagged(Samples1, "energy") = <<>>
        /\ Summary.exercise_time = {}
              <=> Tagged(Samples1, "exercise_time") = <<>>
        /\ \A b \in Summary.exercise_time :
              /\ DOMAIN b = {"total_minutes", "data_points"}
              /\ b.data_points = Len(Tagged(Samples1, "exercise_time"))
              /\ IsRounded(b.total_minutes,
                           Total(Tagged(Samples1, "exercise_time")), 10, 1)

\* C17, its case: a batch of energy samples only: the energy block is
\* there, the steps and exercise_time blocks are null.
C17_Witness ==
    /\ Summarised /\ Len(Samples1) = 2
    /\ \A i \in DOMAIN Samples1 : Samples1[i].type = "energy"
    /\ Summary.energy # {} /\ Summary.steps = {}
    /\ Summary.exercise_time = {}

(***************************************************************************)
(* The four summary tools, each over the lists its source may hold.        *)
(***************************************************************************)
InitSummaries == InitWorkout \/ InitSleep \/ InitHeartRate \/ InitActivity

SpecSummaries == InitSummaries /\ [][NextSummary]_vars

(***************************************************************************)
(* Rounding.  A field kept to two decimals is a count of hundredths, one   *)
(* kept to one decimal a count of tenths; sample values are hundredths.    *)
(***************************************************************************)
Tool1 == tool[1]
RECURSIVE HeartRateSum(_)
HeartRateSum(ws) == IF ws = <<>> THEN 0
                    ELSE Sec(Head(ws).avg_heart_rate_bpm)
                         + HeartRateSum(Tail(ws))
\* The count of hundredths v is num / den rounded to one decimal.
IsOneDecimal(v, num, den) ==
    v % 10 = 0 /\ IsRounded(v \div 10, num, den, 10)

\* C20 as stated: every averaged or derived result, total_duration_hours,
\* avg_duration_hours, total_sleep_hours and the steps avg_per_day among
\* them, is rounded to one decimal, and the totals, total_kcal and the
\* exercise total_minutes among them, are not rounded.
C20_OneDecimalEverywhere ==
    Summarised =>
        /\ (Tool1 = "get_workout_summary" /\ Fetched1 # <<>>) =>
              /\ IsOneDecimal(Summary.total_duration_hours,
                              SecondsIn(Fetched1), 3600)
              /\ IsRounded(Summary.avg_duration_minutes, SecondsIn(Fetched1),
                           Len(Fetched1) * 60, 10)
        /\ (Tool1 = "get_sleep_summary" /\ MainOf(Sessions1) # <<>>) =>
              /\ IsOneDecimal(Summary.avg_duration_hours,
                              SleepSeconds(MainOf(Sessions1)),
                              Len(MainOf(Sessions1)) * 3600)
              /\ IsOneDecimal(Summary.total_sleep_hours,
                              SleepSeconds(MainOf(Sessions1)), 3600)
        /\ Tool1 = "get_activity_summary" =>
              /\ \A b \in Summary.steps :
                    /\ b.total * 100 = Total(Tagged(Samples1, "steps"))
                    /\ IsRounded(10 * b.avg_per_day,
                                 Total(Tagged(Samples1, "steps")),
                                 100 * Divisor(Samples1, "steps"), 10)
              /\ \A b \in Summary.energy :
                    /\ b.total_kcal * 10 = Total(Tagged(Samples1, "energy"))
                    /\ IsRounded(b.avg_kcal_per_day,
                                 Total(Tagged(Samples1, "energy")),
                                 10 * Divisor(Samples1, "energy"), 1)
              /\ \A b \in Summary.exercise_time :
                    b.total_minutes * 10
                       = Total(Tagged(Samples1, "exercise_time"))

\* C20, amended: each derived number of the four summary tools is rounded
\* at the precision of its field: the minute fields, the efficiency, the
\* stage percentages, the heart-rate values, total_kcal, avg_kcal_per_day
\* and the exercise total_minutes to one decimal; total_duration_hours,
\* avg_duration_hours and total_sleep_hours to two decimals; the steps
\* total and avg_per_day cut to a whole number; total_duration_seconds is
\* exact.
C20_RoundedPerField ==
    Summarised =>
        /\ (Tool1 = "get_workout_summary" /\ Fetched1 # <<>>) =>
              /\ Summary.total_duration_seconds = SecondsIn(Fetched1)
              /\ IsRounded(Summary.total_duration_hours,
                           SecondsIn(Fetched1), 3600, 100)
              /\ IsRounded(Summary.avg_duration_minutes, SecondsIn(Fetched1),
                           Len(Fetched1) * 60, 10)
              /\ \A i \in DOMAIN Summary.workout_types :
                    LET wt == Summary.workout_types[i]
                    IN  IsRounded(wt.total_duration_minutes,
                                  SecondsIn(SelectSeq(Fetched1,
                                     LAMBDA w : TagOf(w) = wt.wtype)),
                                  60, 10)
              /\ \A hr \in Summary.heart_rate :
                    IsRounded(hr.avg_across_workouts, HeartRateSum(Fetched1),
                              hr.workouts_with_hr_data, 10)
        /\ (Tool1 = "get_sleep_summary" /\ Sessions1 # <<>>) =>
              LET main == MainOf(Sessions1)
                  staged == StagedOf(Sessions1)
                  asleep == DeepIn(staged) + LightIn(staged) + RemIn(staged)
              IN  /\ IsRounded(Summary.total_sleep_hours,
                               SleepSeconds(main), 3600, 100)
                  /\ main # <<>> =>
                        /\ IsRounded(Summary.avg_duration_hours,
                                     SleepSeconds(main),
                                     Len(main) * 3600, 100)
                        /\ IsRounded(Summary.avg_duration_minutes,
                                     SleepSeconds(main), Len(main) * 60, 10)
                  /\ \A e \in Summary.avg_efficiency_percent :
                        IsRounded(e, EfficiencySum(main),
                                  Cardinality({i \in DOMAIN main :
                                     main[i].efficiency_percent # {}}), 10)
                  /\ \A b \in Summary.sleep_stages_avg :
                        /\ IsSomeRounded(b.deep_minutes, DeepIn(staged),
                                         Len(staged) * 60, 10)
                        /\ IsSomeRounded(b.awake_minutes, AwakeIn(staged),
                                         Len(staged) * 60, 10)
                        /\ \A v \in b.deep_percent :
                              IsRounded(v, DeepIn(staged) * 100, asleep, 10)
                        /\ \A v \in b.rem_percent :
                              IsRounded(v, RemIn(staged) * 100, asleep, 10)
        /\ (Tool1 = "get_heart_rate_stats"
            /\ "total_data_points" \in DOMAIN Summary) =>
              /\ BlockAgrees(Summary.heart_rate,
                             Tagged(Samples1, "heart_rate"))
              /\ BlockAgrees(Summary.resting_heart_rate,
                             Tagged(Samples1, "resting_heart_rate"))
        /\ Tool1 = "get_activity_summary" =>
              /\ \A b \in Summary.steps :
                    /\ IsWholePart(b.total,
                                   Total(Tagged(Samples1, "steps")), 100)
                    /\ IsWholePart(b.avg_per_day,
                                   Total(Tagged(Samples1, "steps")),
                                   100 * Divisor(Samples1, "steps"))
              /\ \A b \in Summary.energy :
                    /\ IsRounded(b.total_kcal,
                                 Total(Tagged(Samples1, "energy")), 10, 1)
                    /\ IsRounded(b.avg_kcal_per_day,
                                 Total(Tagged(Samples1, "energy")),
                                 10 * Divisor(Samples1, "energy"), 1)
              /\ \A b \in Summary.exercise_time :
                    IsRounded(b.total_minutes,
                              Total(Tagged(Samples1, "exercise_time")), 10, 1)

\* C20, its case: two main sleeps, one of 27000 s and one without a
\* duration, average 3.75 hours: two decimals, not one.
C20_Witness ==
    /\ Summarised /\ Tool1 = "get_sleep_summary" /\ Len(Sessions1) = 2
    /\ ~Sessions1[1].is_nap /\ Sessions1[1].duration_seconds = {27000}
    /\ ~Sessions1[2].is_nap /\ Sessions1[2].duration_seconds = {}
    /\ Summary.avg_duration_hours = 375
    /\ Summary.total_sleep_hours = 750

(***************************************************************************)
(* The summaries under a reordering of the fetched list.                   *)
(***************************************************************************)
\* The list the summary of invocation 1 was computed from.
Batch1 ==
    CASE Tool1 = "get_workout_summary" -> source.workouts
      [] Tool1 = "get_sleep_summary" -> source.sleeps
      [] OTHER -> source.samples

\* The list with the records at i and j exchanged.  Every permutation is a
\* chain of such exchanges, and the lists the source may hold are closed
\* under them.
Swap(ws, i, j) ==
    [k \in DOMAIN ws |-> IF k = i THEN ws[j] ELSE IF k = j THEN ws[i]
                         ELSE ws[k]]
Swaps(ws) == {Swap(ws, i, j) : i, j \in DOMAIN ws}

\* The results the tool of invocation 1 can return for a fetched list.
ResultsOver(batch) == ToolResults(Tool1, args[1], Page(batch))

\* A workout summary without the order of its workout_types entries of
\* equal count: the set of the entries, and their counts in listed order.
UpToTies(r) ==
    [r EXCEPT !.workout_types =
        [entries |-> {r.workout_types[i] : i \in DOMAIN r.workout_types},
         counts |-> [i \in DOMAIN r.workout_types |->
                       r.workout_types[i].count]]]

\* C23: the summary get_sleep_summary, get_heart_rate_stats or
\* get_activity_summary returns for a fetched list is the one it returns
\* for the list in any other order; so is the summary of
\* get_workout_summary, but for the order among workout_types entries with
\* the same count.
C23_PermutationInvariant ==
    Summarised =>
        \A other \in Swaps(Batch1) :
            IF Tool1 = "get_workout_summary"
            THEN /\ UpToTies(Summary) \in {UpToTies(r) : r \in ResultsOver(other)}
                 /\ {UpToTies(r) : r \in ResultsOver(other)}
                       = {UpToTies(r) : r \in ResultsOver(Batch1)}
            ELSE /\ Summary \in ResultsOver(other)
                 /\ ResultsOver(other) = ResultsOver(Batch1)

(***************************************************************************)
(* The order in which get_timeseries checks its arguments.                 *)
(***************************************************************************)
\* C22: get_timeseries parses its dates first, resolves the series-type
\* names next, opens the session after that and parses user_id last, inside
\* the with block: names are resolved and a session is opened only once the
\* dates have parsed, a session is opened only with a recognized name, and
\* nothing is raised on account of user_id before a session is open.  So a
\* malformed date raises ValueError whatever the names are, with no name
\* resolved and no session opened; with dates that parse and no recognized
\* name the notice is returned, no session opened, whatever user_id is; and
\* with dates that parse and a recognized name a malformed user_id
\* raises ValueError with the session open, before any service call, and
\* the session is rolled back and then closed.
C22_CheckOrder ==
    \A c \in Calls :
        tool[c] = "get_timeseries" =>
            /\ pc[c] \in {"idle", "parse"} => (types[c] = <<>> /\ db[c] = 0)
            /\ pc[c] = "resolve" => (DatesParse(c) /\ db[c] = 0)
            /\ types[c] # <<>> => (DatesParse(c) /\ parsed[c] # NoDates)
            /\ db[c] # 0 =>
                 /\ DatesParse(c)
                 /\ types[c] = Recognized(args[c].series_types)
                 /\ types[c] # <<>>
            /\ (exc[c] # None \/ (Done(c) /\ Raised(c) /\ DatesParse(c))) =>
                 db[c] # 0
            /\ (Done(c) /\ ~DatesParse(c)) =>
                 /\ outcome[c] = [kind |-> "raise", exc |-> "ValueError"]
                 /\ types[c] = <<>> /\ db[c] = 0
            /\ (Done(c) /\ DatesParse(c)
                /\ Recognized(args[c].series_types) = <<>>) =>
                 /\ outcome[c] = [kind |-> "return",
                                  value |-> NoValidTypesNotice]
                 /\ db[c] = 0
            /\ (DatesParse(c) /\ Recognized(args[c].series_types) # <<>>
                /\ ~UserParses(c)) =>
                 /\ ~Fetched(c)
                 /\ pc[c] = "except" =>
                      (exc[c] = Some("ValueError") /\ Ops(c) = <<"open">>)
                 /\ Done(c) =>
                      /\ outcome[c] = [kind |-> "raise", exc |-> "ValueError"]
                      /\ Ops(c) = <<"open", "rollback", "close">>

\* C22, its case: get_timeseries called with dates that parse, no
\* recognized name and a user_id that is no UUID has returned the notice
\* without opening a session.
C22_Witness ==
    \E c \in Calls :
        /\ tool[c] = "get_timeseries" /\ args[c].user_id = UserBad
        /\ args[c].series_types = <<"bogus">>
        /\ args[c].start_datetime = DateZulu /\ args[c].end_datetime = DatePlain
        /\ Done(c) /\ outcome[c] = [kind |-> "return",
                                    value |-> NoValidTypesNotice]
        /\ db[c] = 0

(***************************************************************************)
(* Several invocations at once: the host has called every invocation's     *)
(* tool, and their steps interleave freely from there.                     *)
(***************************************************************************)
TimeseriesArgs ==
    [user_id |-> UserCanonical, series_types |-> <<"steps", "bogus">>,
     start_datetime |-> DateZulu, end_datetime |-> DatePlain, limit |-> 20]

\* The calls the host makes side by side: a summary that is answered, one
\* with a user id that is no UUID, one with a date that does not parse, and
\* a get_timeseries query.
ConcurrentInvocations ==
    {[tool |-> "get_workout_summary", args |-> SummaryArgs],
     [tool |-> "get_heart_rate_stats",
      args |-> [SummaryArgs EXCEPT !.user_id = UserBad]],
     [tool |-> "get_sleep_summary",
      args |-> [SummaryArgs EXCEPT !.start_date = DateBad]],
     [tool |-> "get_timeseries", args |-> TimeseriesArgs]}

InitConcurrent ==
    /\ source \in Sources
    /\ live = Calls
    /\ \E inv \in [Calls -> ConcurrentInvocations] :
         /\ tool = [c \in Calls |-> inv[c].tool]
         /\ args = [c \in Calls |-> inv[c].args]
         /\ pc = [c \in Calls |-> IF inv[c].tool \in UserTools THEN "open"
                                  ELSE "parse"]
    /\ parsed = [c \in Calls |-> NoDates]
    /\ types = [c \in Calls |-> <<>>]
    /\ db = [c \in Calls |-> 0]
    /\ exc = [c \in Calls |-> None]
    /\ result = [c \in Calls |-> None]
    /\ outcome = [c \in Calls |-> [kind |-> "none"]]
    /\ sessLog = [s \in Calls |-> <<>>]
    /\ fetchLog = [c \in Calls |-> <<>>]
    /\ nextSession = 1

NextConcurrent ==
    \E c \in Calls :
        \/ ParseDates(c)
        \/ ResolveTypes(c)
        \/ OpenSession(c)
        \/ UserIdRejected(c)
        \/ CallService(c)
        \/ FetchReturns(c)
        \/ FetchRaises(c)
        \/ Rollback(c)
        \/ Close(c)

SpecConcurrent == InitConcurrent /\ [][NextConcurrent]_vars

\* What invocation c holds of its own.
LocalOf(c) ==
    <<pc[c], tool[c], args[c], parsed[c], types[c], db[c], exc[c], result[c],
      outcome[c], fetchLog[c]>>

\* How often op was called on the session of invocation c.
OpCount(c, op) == Cardinality({i \in DOMAIN Ops(c) : Ops(c)[i] = op})

\* What reaches the caller of tool t called alone with arguments a, given
\* what its service call (if it gets that far) raises or fetches.
AloneOutcomes(t, a, fetch) ==
    IF t \notin UserTools
       /\ ~(DateOk(t, StartArg(t, a)) /\ DateOk(t, EndArg(t, a)))
    THEN {[kind |-> "raise", exc |-> "ValueError"]}
    ELSE IF t = "get_timeseries" /\ Recognized(a.series_types) = <<>>
    THEN {[kind |-> "return", value |-> NoValidTypesNotice]}
    ELSE IF NeedsUser(t) /\ UUID(a.user_id) = None
    THEN {[kind |-> "raise", exc |-> "ValueError"]}
    ELSE IF fetch.raised # None
    THEN {[kind |-> "raise", exc |-> TheValue(fetch.raised)]}
    ELSE {[kind |-> "return", value |-> r] :
            r \in ToolResults(t, a, Response(fetch.call, source))}

NoFetch == [call |-> <<>>, raised |-> None]

C21_Isolated ==
    \A c \in Calls :
        /\ db[c] # 0 =>
             /\ OwnSession(c)
             /\ \A d \in Calls \ {c} : db[d] # db[c]
             /\ OpCount(c, "open") = 1 /\ Ops(c)[1] = "open"
             /\ OpCount(c, "close") = IF Done(c) THEN 1 ELSE 0
             /\ Done(c) => Ops(c)[Len(Ops(c))] = "close"
        /\ Fetched(c) =>
             /\ db[c] # 0
             /\ \A i \in DOMAIN fetchLog[c] : fetchLog[c][i].call.db = db[c]
        /\ Done(c) =>
             outcome[c] \in AloneOutcomes(tool[c], args[c],
                                          IF Fetched(c) THEN LastFetch(c)
                                          ELSE NoFetch)

C21_StepOfOne ==
    \E c \in Calls :
        /\ \A d \in Calls \ {c} : LocalOf(d)' = LocalOf(d)
        /\ \A s \in DOMAIN sessLog :
              sessLog'[s] # sessLog[s] => (s = db'[c] /\ s # 0)
        /\ source' = source

\* C21: under any interleaving of the invocations' steps, an invocation
\* that opens a session opens one of its own, different from every other
\* invocation's; its service call is made on that session; only the
\* invocation that opened a session calls anything on it, and it closes it
\* exactly once, as the last call on it; every step changes what one
\* invocation holds and at most that invocation's session, and nothing of
\* any other invocation; and what reaches the caller is what the tool
\* called alone gives for the same arguments and the same fetched batch.
C21_InvocationsIndependent == []C21_Isolated /\ [][C21_StepOfOne]_vars

\* C21, its case: invocation 2 opened its session first and is still
\* handling the exception of its service call when invocation 1, on a
\* session of its own, has returned its summary and closed that session.
C21_Witness ==
    /\ db[2] = 1 /\ db[1] = 2
    /\ pc[2] = "except" /\ FetchFailed(2)
    /\ Ops(2) = <<"open">>
    /\ tool[1] = "get_workout_summary" /\ Done(1) /\ Returned(1)
    /\ outcome[1].value.total_workouts = 1
    /\ Ops(1) = <<"open", "close">>

====
